---- MODULE Spec2Model ----
(***************************************************************************)
(* HPCG problem generator (GenerateProblem.cpp) and residual reducer       *)
(* (ComputeResidual.cpp) as state machines.                                *)
(*                                                                         *)
(* The source compiles into four builds, selected by HPCG_NOOPENMP and     *)
(* HPCG_NOMPI.  The specifications below are:                              *)
(*   Spec     GenerateProblem, OpenMP build, one process, worker threads   *)
(*            interleaved statement by statement;                          *)
(*   SpecSeq  GenerateProblem, serial build (no OpenMP, no MPI);           *)
(*   SpecPre  the precondition checks of GenerateProblem on large extents; *)
(*   SpecMPI  GenerateProblem, MPI build, every rank of the communicator;  *)
(*   SpecRes  ComputeResidual, OpenMP + MPI build.                         *)
(* Doubles that the code only assigns or compares (27.0, -1.0, 0.0, 1.0    *)
(* and the inputs of ComputeResidual) are modelled by the integers that    *)
(* they represent exactly.                                                 *)
(***************************************************************************)
EXTENDS Integers, Sequences, FiniteSets, TLC

(***************************************************************************)
(* Bounds of the model.                                                    *)
(***************************************************************************)
\* SpecSeq: local extents are 0..MaxN, process-grid extents 1..MaxNP.
MaxN == 3
MaxNP == 3
\* Spec: local extents 1..MaxNT, process-grid extents 1..MaxNPT, and
\* NumThreads worker threads in every parallel region.
MaxNT == 2
MaxNPT == 2
NumThreads == 2
\* SpecMPI: local extents nx in 1..MaxNM, ny = nz = 1 on every rank, and on
\* the 2 x 2 x 2 process grid also cubic local extents LargeN.
MaxNM == 2
LargeN == 400
\* SpecRes: up to MaxResProcs processes, vectors of up to MaxLen entries, and
\* teams of 1..NumThreads threads.
MaxResProcs == 2
MaxLen == 2
\* SpecGrid: process grids of 1..MaxNPG ranks per axis, local extents with
\* at most MaxRowsG local rows.
MaxNPG == 2
MaxRowsG == 2

(***************************************************************************)
(* Program constants.                                                      *)
(***************************************************************************)
\* Largest value of the C type int, the type of nx*ny*nz and of local_int_t.
INT_MAX == 2147483647
\* int numberOfNonzerosPerRow = 27: capacity of a row.
numberOfNonzerosPerRow == 27

(***************************************************************************)
(* 32-bit int arithmetic.  All operands are kept inside the int range so   *)
(* that the wrapped product is computed from 16-bit halves.                *)
(***************************************************************************)
\* Low 16 bits of x*y, for x, y in 0..65535.
Lo16Mul(x, y) ==
  LET T1 == x * (y \div 256)
      T2 == x * (y % 256)
  IN  ((T1 % 256) * 256 + T2) % 65536

\* Bits 16.. of x*y, for x, y in 0..65535.
Hi16Mul(x, y) ==
  LET T1 == x * (y \div 256)
      T2 == x * (y % 256)
  IN  (T1 \div 256) + (((T1 % 256) * 256 + T2) \div 65536)

\* a*b as a two's-complement int keeps it: the product modulo 2^32, signed.
WrapMul32(a, b) ==
  LET al == a % 65536
      ah == (a \div 65536) % 65536
      bl == b % 65536
      bh == (b \div 65536) % 65536
      lo == Lo16Mul(al, bl)
      hi == (Hi16Mul(al, bl) + Lo16Mul(ah, bl) + Lo16Mul(al, bh)) % 65536
  IN  IF hi >= 32768 THEN (hi - 65536) * 65536 + lo ELSE hi * 65536 + lo

\* The mathematical product of two non-negative ints is representable in int.
MulFits(a, b) == a = 0 \/ b <= INT_MAX \div a

\* A 64-bit integer (long long) as hi * 2^16 + lo with 0 <= lo < 2^16, so
\* that sums beyond the int range can be written down.
Widen(v) == [hi |-> v \div 65536, lo |-> v % 65536]

\* a + b in 64 bits (the sums of this model stay far inside the range).
WideAdd(a, b) ==
  [hi |-> a.hi + b.hi + ((a.lo + b.lo) \div 65536), lo |-> (a.lo + b.lo) % 65536]

\* w > 0
WidePositive(w) == w.hi > 0 \/ (w.hi = 0 /\ w.lo > 0)

\* The int that keeps the low 32 bits of w (two's complement).
NarrowInt(w) ==
  LET h == w.hi % 65536
  IN  IF h >= 32768 THEN (h - 65536) * 65536 + w.lo ELSE h * 65536 + w.lo


(***************************************************************************)
(* Geometry: the value object GenerateProblem reads.  It is built outside  *)
(* the modelled files; rank is only a label of the process.                *)
(***************************************************************************)
Geometry(nx, ny, nz, npx, npy, npz, ipx, ipy, ipz) ==
  [nx |-> nx, ny |-> ny, nz |-> nz,
   npx |-> npx, npy |-> npy, npz |-> npz,
   ipx |-> ipx, ipy |-> ipy, ipz |-> ipz,
   size |-> npx * npy * npz,
   rank |-> ipx + ipy * npx + ipz * npx * npy]

\* int gnx = nx*npx; int gny = ny*npy; int gnz = nz*npz;
gnx(g) == g.nx * g.npx
gny(g) == g.ny * g.npy
gnz(g) == g.nz * g.npz

(***************************************************************************)
(* Precondition checks (lines 58-69).  local_int_t is int, as the comment  *)
(* on the first assert says; all products up to the asserts are products   *)
(* of ints.  Signed overflow is undefined: a build either wraps (the       *)
(* two's-complement product) or, compiled to trap on overflow, aborts.     *)
(***************************************************************************)
\* Some int product of lines 58-67 overflows (operands are non-negative).
IntOverflow(g) ==
  \/ ~MulFits(g.nx, g.npx)
  \/ ~MulFits(g.ny, g.npy)
  \/ ~MulFits(g.nz, g.npz)
  \/ ~MulFits(g.nx, g.ny)
  \/ (MulFits(g.nx, g.ny) /\ ~MulFits(g.nx * g.ny, g.nz))
  \/ (/\ MulFits(g.nx, g.ny)
      /\ MulFits(g.nx * g.ny, g.nz)
      /\ ~MulFits(g.nx * g.ny * g.nz, g.size))

\* local_int_t localNumberOfRows = nx*ny*nz;
LocalNumberOfRows(g) == WrapMul32(WrapMul32(g.nx, g.ny), g.nz)

\* global_int_t totalNumberOfRows = localNumberOfRows*geom.size;
\* the product is formed in int and then converted.
TotalNumberOfRows(g) == WrapMul32(LocalNumberOfRows(g), g.size)

\* assert(localNumberOfRows>0)
AssertLocalRows(rows) == rows > 0

\* assert(totalNumberOfRows>0)
AssertTotalRows(total) == total > 0

(***************************************************************************)
(* One row of the 27-point stencil (lines 110-152).                        *)
(***************************************************************************)
\* Mutant of CurrentLocalRow: the plane term iz*nx*ny is dropped.
MutCurrentLocalRowNoPlane(g, ix, iy, iz) == iy * g.nx + ix

\* local_int_t currentLocalRow = iz*nx*ny+iy*nx+ix;
CurrentLocalRow(g, ix, iy, iz) == iz * g.nx * g.ny + iy * g.nx + ix

\* global_int_t giz = ipz*nz+iz; giy = ipy*ny+iy; gix = ipx*nx+ix;
\* global_int_t currentGlobalRow = giz*gnx*gny+giy*gnx+gix;
RowContext(g, ix, iy, iz) ==
  LET giz == g.ipz * g.nz + iz
      giy == g.ipy * g.ny + iy
      gix == g.ipx * g.nx + ix
  IN  [gnx |-> gnx(g), gny |-> gny(g), gnz |-> gnz(g),
       gix |-> gix, giy |-> giy, giz |-> giz,
       currentGlobalRow |-> giz * gnx(g) * gny(g) + giy * gnx(g) + gix]

\* Mutant of CurrentGlobalRow: linearised with the local extents.
MutCurrentGlobalRowLocalExtents(g, ix, iy, iz) ==
  LET c == RowContext(g, ix, iy, iz)
  IN  c.giz * g.nx * g.ny + c.giy * g.nx + c.gix

CurrentGlobalRow(g, ix, iy, iz) == RowContext(g, ix, iy, iz).currentGlobalRow

\* Mutant of InZBounds: the upper bound of the z test is dropped.
MutInZBoundsNoUpper(c, sz) == c.giz + sz > -1

\* if (giz+sz>-1 && giz+sz<gnz)
InZBounds(c, sz) == c.giz + sz > -1 /\ c.giz + sz < c.gnz
\* Mutant of InYBounds: the lower bound of the y test is dropped.
MutInYBoundsNoLower(c, sy) == c.giy + sy < c.gny

\* if (giy+sy>-1 && giy+sy<gny)
InYBounds(c, sy) == c.giy + sy > -1 /\ c.giy + sy < c.gny
\* Mutant of InXBounds: the lower bound is tested with > 0 instead of > -1.
MutInXBoundsStrict(c, sx) == c.gix + sx > 0 /\ c.gix + sx < c.gnx

\* if (gix+sx>-1 && gix+sx<gnx)
InXBounds(c, sx) == c.gix + sx > -1 /\ c.gix + sx < c.gnx

\* Mutant of Curcol: the x offset is subtracted.
MutCurcolMirroredX(c, sz, sy, sx) ==
  c.currentGlobalRow + sz * c.gnx * c.gny + sy * c.gnx - sx

\* global_int_t curcol = currentGlobalRow+sz*gnx*gny+sy*gnx+sx;
Curcol(c, sz, sy, sx) == c.currentGlobalRow + sz * c.gnx * c.gny + sy * c.gnx + sx

\* Mutant of EntryValue: the diagonal test is >= instead of ==.
MutEntryValueGeq(c, curcol) == IF curcol >= c.currentGlobalRow THEN 27 ELSE -1

\* The value stored for column curcol of the row: 27.0 on the diagonal.
EntryValue(c, curcol) == IF curcol = c.currentGlobalRow THEN 27 ELSE -1

\* A row under construction: the filled prefix of its value and column
\* arrays, the diagonal slot (1-based position in vals, 0 is the null
\* pointer of line 91) and char numberOfNonzerosInRow.
EmptyRow == [vals |-> <<>>, cols |-> <<>>, diag |-> 0, nnz |-> 0]

\* Mutant of StencilEntry: the diagonal pointer is taken one slot too early.
MutStencilEntryDiagEarly(c, sz, sy, sx, acc) ==
  LET curcol == c.currentGlobalRow + sz * c.gnx * c.gny + sy * c.gnx + sx
  IN  [vals |-> Append(acc.vals, IF curcol = c.currentGlobalRow THEN 27 ELSE -1),
       cols |-> Append(acc.cols, curcol),
       diag |-> IF curcol = c.currentGlobalRow THEN Len(acc.vals) ELSE acc.diag,
       nnz  |-> acc.nnz + 1]

\* Body of the innermost loop (lines 136-145).
StencilEntry(c, sz, sy, sx, acc) ==
  LET curcol == Curcol(c, sz, sy, sx)
  IN  [vals |-> Append(acc.vals, EntryValue(c, curcol)),
       cols |-> Append(acc.cols, curcol),
       diag |-> IF curcol = c.currentGlobalRow THEN Len(acc.vals) + 1 ELSE acc.diag,
       nnz  |-> acc.nnz + 1]

\* The three stencil loops; the row built so far is bound (a) before the
\* loop goes on to its next iteration.
RECURSIVE SxLoop(_, _, _, _, _)
SxLoop(c, sz, sy, sx, acc) ==
  IF sx > 1 THEN acc
  ELSE CHOOSE r \in { SxLoop(c, sz, sy, sx + 1, a) :
                        a \in {IF InXBounds(c, sx) THEN StencilEntry(c, sz, sy, sx, acc)
                                ELSE acc} } : TRUE

RECURSIVE SyLoop(_, _, _, _)
SyLoop(c, sz, sy, acc) ==
  IF sy > 1 THEN acc
  ELSE CHOOSE r \in { SyLoop(c, sz, sy + 1, a) :
                        a \in {IF InYBounds(c, sy) THEN SxLoop(c, sz, sy, -1, acc)
                                ELSE acc} } : TRUE

RECURSIVE SzLoop(_, _, _)
SzLoop(c, sz, acc) ==
  IF sz > 1 THEN acc
  ELSE CHOOSE r \in { SzLoop(c, sz + 1, a) :
                        a \in {IF InZBounds(c, sz) THEN SyLoop(c, sz, -1, acc)
                                ELSE acc} } : TRUE

\* The row the code builds for local grid point (ix, iy, iz).
StencilRow(g, ix, iy, iz) == SzLoop(RowContext(g, ix, iy, iz), -1, EmptyRow)

\* Mutant of BValue: the diagonal is not excluded from the count.
MutBValueAll(numberOfNonzerosInRow) == 27 - numberOfNonzerosInRow

\* (*b)[currentLocalRow] = 27.0 - ((double) (numberOfNonzerosInRow-1));
BValue(numberOfNonzerosInRow) == 27 - (numberOfNonzerosInRow - 1)

\* f with f[k] set to v, k added to the domain when it is new.
Put(f, k, v) == (k :> v) @@ f


(***************************************************************************)
(* State.  Every per-process variable is a function of the ranks that the  *)
(* specification models (DOMAIN geom).  Arrays that the code allocates     *)
(* without initialising them (new char[n], new double[n]) are functions    *)
(* whose domain is the set of entries written so far.                      *)
(***************************************************************************)
VARIABLES
  build,                  \* compile-time switches of this run
  geom,                   \* geom[p]: the Geometry handed to process p
  pc,                     \* pc[p]: where process p is in GenerateProblem
  localNumberOfRows,      \* local_int_t localNumberOfRows
  totalNumberOfRows,      \* global_int_t totalNumberOfRows (an int product, line 67)
  localNumberOfNonzeros,  \* local_int_t localNumberOfNonzeros (line 104)
  globalToLocalMap,       \* A.globalToLocalMap: std::map, global row -> local row
  localToGlobalMap,       \* A.localToGlobalMap: vector, local row -> global row
  nonzerosInRow,          \* char * nonzerosInRow
  mtxIndG,                \* mtxIndG[p][r]: filled prefix of the column array of row r
  matrixValues,           \* matrixValues[p][r]: filled prefix of the value array of row r
  matrixDiagonal,         \* matrixDiagonal[p][r]: diagonal slot of row r, 0 = null
  x, b, xexact,           \* the three vectors
  A,                      \* aggregate fields of A assigned at lines 185-190
  thr,                    \* thr[p][t]: worker thread t of process p
  izTaken,                \* izTaken[p]: iterations of the iz loop handed to a thread
  critical,               \* critical[p]: thread inside the unnamed omp critical, 0 = none
  criticalEntries,        \* history: criticalEntries[p][s][r], entries of row r into section s
  writers,                \* history: writers[p], who wrote which array element in the loop
  sumBuf,                 \* contributions handed to MPI_Allreduce(MPI_SUM)
  localLength,            \* ComputeResidual: localLength[p] is the argument n
  v1, v2,                 \* ComputeResidual: the two input vectors of process p
  resPc,                  \* resPc[p]: where process p is in ComputeResidual
  team,                   \* team[p][t]: thread t of the parallel region
  taken,                  \* taken[p]: iterations of the omp for handed to a thread
  resCritical,            \* thread inside the omp critical of ComputeResidual, 0 = none
  local_residual,         \* double local_residual
  maxBuf,                 \* contributions handed to MPI_Allreduce(MPI_MAX)
  residual,               \* *residual, where it has been written
  ret                     \* the value returned, for the processes that returned

cfgVars == <<build, geom>>
rowVars == <<localNumberOfRows, totalNumberOfRows>>
matVars == <<globalToLocalMap, localToGlobalMap, nonzerosInRow, mtxIndG,
             matrixValues, matrixDiagonal>>
vecVars == <<x, b, xexact>>
histVars == <<criticalEntries, writers>>
ompVars == <<thr, izTaken, critical, histVars>>
genVars == <<cfgVars, pc, rowVars, localNumberOfNonzeros, matVars, vecVars, A,
             ompVars, sumBuf>>
resVars == <<localLength, v1, v2, resPc, team, taken, resCritical, local_residual,
             maxBuf, residual, ret>>
vars == <<genVars, resVars>>

Procs == DOMAIN geom

\* Process p has left GenerateProblem through a failed assert or a trap.
Aborted(p) == pc[p] \in {"trap", "assert_localNumberOfRows",
                         "assert_totalNumberOfRows", "assert_totalNumberOfNonzeros"}

(***************************************************************************)
(* Lines 49-69: read the geometry, derive the row counts, check them.      *)
(***************************************************************************)
GenPrecheck(p) ==
  /\ pc[p] = "start"
  /\ LET g == geom[p]
         rows == LocalNumberOfRows(g)
         total == TotalNumberOfRows(g)
     IN  IF build.trapv /\ IntOverflow(g)
         THEN /\ pc' = [pc EXCEPT ![p] = "trap"]
              /\ UNCHANGED rowVars
         ELSE IF ~AssertLocalRows(rows)
         THEN /\ pc' = [pc EXCEPT ![p] = "assert_localNumberOfRows"]
              /\ UNCHANGED rowVars
         ELSE IF ~AssertTotalRows(total)
         THEN /\ pc' = [pc EXCEPT ![p] = "assert_totalNumberOfRows"]
              /\ localNumberOfRows' = [localNumberOfRows EXCEPT ![p] = rows]
              /\ UNCHANGED totalNumberOfRows
         ELSE /\ pc' = [pc EXCEPT ![p] = "checked"]
              /\ localNumberOfRows' = [localNumberOfRows EXCEPT ![p] = rows]
              /\ totalNumberOfRows' = [totalNumberOfRows EXCEPT ![p] = total]
  /\ UNCHANGED <<cfgVars, localNumberOfNonzeros, matVars, vecVars, A, ompVars, sumBuf>>

(***************************************************************************)
(* Lines 72-104: allocation.  The pointer arrays are zeroed, the vector    *)
(* localToGlobalMap is resized (value-initialised), the row arrays have    *)
(* capacity numberOfNonzerosPerRow and nothing filled.                     *)
(***************************************************************************)
Rows(n) == 0 .. (n - 1)

Allocated(n) ==
  [globalToLocalMap |-> <<>>,
   localToGlobalMap |-> [r \in Rows(n) |-> 0],
   nonzerosInRow |-> <<>>,
   mtxIndG |-> [r \in Rows(n) |-> <<>>],
   matrixValues |-> [r \in Rows(n) |-> <<>>],
   matrixDiagonal |-> [r \in Rows(n) |-> 0],
   x |-> <<>>, b |-> <<>>, xexact |-> <<>>,
   localNumberOfNonzeros |-> 0]

(***************************************************************************)
(* Lines 109-162 without OpenMP: the loop nest, row after row.             *)
(***************************************************************************)
\* One iteration of the ix loop on the memory st of the process.
SerialRow(g, st, ix, iy, iz) ==
  LET l == CurrentLocalRow(g, ix, iy, iz)
      grow == CurrentGlobalRow(g, ix, iy, iz)
      row == StencilRow(g, ix, iy, iz)
  IN  [globalToLocalMap |-> Put(st.globalToLocalMap, grow, l),
       localToGlobalMap |-> Put(st.localToGlobalMap, l, grow),
       nonzerosInRow |-> Put(st.nonzerosInRow, l, row.nnz),
       mtxIndG |-> Put(st.mtxIndG, l, row.cols),
       matrixValues |-> Put(st.matrixValues, l, row.vals),
       matrixDiagonal |-> IF row.diag = 0 THEN st.matrixDiagonal
                          ELSE Put(st.matrixDiagonal, l, row.diag),
       x |-> Put(st.x, l, 0),
       b |-> Put(st.b, l, BValue(row.nnz)),
       xexact |-> Put(st.xexact, l, 1),
       localNumberOfNonzeros |-> st.localNumberOfNonzeros + row.nnz]

\* The loops thread the memory through their iterations; each iteration's
\* result is bound (s) before the loop goes on.
RECURSIVE IxLoop(_, _, _, _, _)
IxLoop(g, st, ix, iy, iz) ==
  IF ix < g.nx
  THEN CHOOSE r \in { IxLoop(g, s, ix + 1, iy, iz) :
                        s \in {SerialRow(g, st, ix, iy, iz)} } : TRUE
  ELSE st

RECURSIVE IyLoop(_, _, _, _)
IyLoop(g, st, iy, iz) ==
  IF iy < g.ny
  THEN CHOOSE r \in { IyLoop(g, s, iy + 1, iz) : s \in {IxLoop(g, st, 0, iy, iz)} } : TRUE
  ELSE st

RECURSIVE IzLoop(_, _, _)
IzLoop(g, st, iz) ==
  IF iz < g.nz
  THEN CHOOSE r \in { IzLoop(g, s, iz + 1) : s \in {IyLoop(g, st, 0, iz)} } : TRUE
  ELSE st

\* assert(totalNumberOfNonzeros>0)
AssertTotalNonzeros(total) == WidePositive(total)

\* Lines 185-190: the aggregate fields of A.
AFields(p, total) ==
  [title |-> 0,
   totalNumberOfRows |-> totalNumberOfRows[p],
   totalNumberOfNonzeros |-> total,
   localNumberOfRows |-> localNumberOfRows[p],
   localNumberOfColumns |-> localNumberOfRows[p],
   localNumberOfNonzeros |-> localNumberOfNonzeros'[p]]

\* The memory st that the loop nest leaves becomes the memory of process p.
StoreLoops(p, st) ==
  /\ globalToLocalMap' = [globalToLocalMap EXCEPT ![p] = st.globalToLocalMap]
  /\ localToGlobalMap' = [localToGlobalMap EXCEPT ![p] = st.localToGlobalMap]
  /\ nonzerosInRow' = [nonzerosInRow EXCEPT ![p] = st.nonzerosInRow]
  /\ mtxIndG' = [mtxIndG EXCEPT ![p] = st.mtxIndG]
  /\ matrixValues' = [matrixValues EXCEPT ![p] = st.matrixValues]
  /\ matrixDiagonal' = [matrixDiagonal EXCEPT ![p] = st.matrixDiagonal]
  /\ x' = [x EXCEPT ![p] = st.x]
  /\ b' = [b EXCEPT ![p] = st.b]
  /\ xexact' = [xexact EXCEPT ![p] = st.xexact]
  /\ localNumberOfNonzeros' =
       [localNumberOfNonzeros EXCEPT ![p] = st.localNumberOfNonzeros]

\* Lines 72-197 in the serial build: allocate, run the loop nest, take the
\* local count as the total (line 179), check it, fill A and return.
GenBodySerial(p) ==
  /\ pc[p] = "checked"
  /\ ~build.omp /\ ~build.mpi
  /\ \E st \in {IzLoop(geom[p], Allocated(localNumberOfRows[p]), 0)} :
         /\ StoreLoops(p, st)
         /\ IF AssertTotalNonzeros(Widen(st.localNumberOfNonzeros))
            THEN /\ A' = [A EXCEPT ![p] = AFields(p, Widen(st.localNumberOfNonzeros))]
                 /\ pc' = [pc EXCEPT ![p] = "done"]
            ELSE /\ A' = A
                 /\ pc' = [pc EXCEPT ![p] = "assert_totalNumberOfNonzeros"]
  /\ UNCHANGED <<cfgVars, rowVars, ompVars, sumBuf>>

(***************************************************************************)
(* Initial states.                                                         *)
(***************************************************************************)
\* ComputeResidual is not called in this run.
NoResidualCall ==
  /\ localLength = <<>> /\ v1 = <<>> /\ v2 = <<>>
  /\ resPc = <<>> /\ team = <<>> /\ taken = <<>> /\ resCritical = <<>>
  /\ local_residual = <<>> /\ maxBuf = <<>> /\ residual = <<>> /\ ret = <<>>

\* The state of the modelled ranks before GenerateProblem is entered.
InitGen(ranks) ==
  /\ pc = [p \in ranks |-> "start"]
  /\ localNumberOfRows = [p \in ranks |-> 0]
  /\ totalNumberOfRows = [p \in ranks |-> 0]
  /\ localNumberOfNonzeros = [p \in ranks |-> 0]
  /\ globalToLocalMap = [p \in ranks |-> <<>>]
  /\ localToGlobalMap = [p \in ranks |-> <<>>]
  /\ nonzerosInRow = [p \in ranks |-> <<>>]
  /\ mtxIndG = [p \in ranks |-> <<>>]
  /\ matrixValues = [p \in ranks |-> <<>>]
  /\ matrixDiagonal = [p \in ranks |-> <<>>]
  /\ x = [p \in ranks |-> <<>>]
  /\ b = [p \in ranks |-> <<>>]
  /\ xexact = [p \in ranks |-> <<>>]
  /\ A = [p \in ranks |-> <<>>]
  /\ thr = [p \in ranks |-> <<>>]
  /\ izTaken = [p \in ranks |-> {}]
  /\ critical = [p \in ranks |-> 0]
  /\ criticalEntries = [p \in ranks |-> [map |-> <<>>, nnz |-> <<>>]]
  /\ writers = [p \in ranks |-> {}]
  /\ sumBuf = <<>>

\* The same, in a run that does not call ComputeResidual.
InitProcs(ranks) ==
  /\ InitGen(ranks)
  /\ NoResidualCall

\* One process anywhere in a process grid of up to maxnp ranks per axis,
\* with local extents minn..maxn.
OneProcGeometries(minn, maxn, maxnp) ==
  { Geometry(nx, ny, nz, npx, npy, npz, ipx, ipy, ipz) :
      nx \in minn..maxn, ny \in minn..maxn, nz \in minn..maxn,
      npx \in 1..maxnp, npy \in 1..maxnp, npz \in 1..maxnp,
      ipx \in 0..(maxnp - 1), ipy \in 0..(maxnp - 1), ipz \in 0..(maxnp - 1) }

InGrid(g) == g.ipx < g.npx /\ g.ipy < g.npy /\ g.ipz < g.npz

(***************************************************************************)
(* SpecSeq: the serial build on one process of any small process grid.     *)
(***************************************************************************)
InitSeq ==
  /\ build = [omp |-> FALSE, mpi |-> FALSE, trapv |-> FALSE, nolonglong |-> FALSE]
  /\ \E g \in OneProcGeometries(0, MaxN, MaxNP) :
       /\ InGrid(g)
       /\ geom = (g.rank :> g)
       /\ InitProcs({g.rank})

NextSeq ==
  /\ UNCHANGED resVars
  /\ \E p \in Procs : GenPrecheck(p) \/ GenBodySerial(p)

SpecSeq == InitSeq /\ [][NextSeq]_vars


(***************************************************************************)
(* Properties of the generated rows and vectors (SpecSeq).                 *)
(***************************************************************************)
Done(p) == pc[p] = "done"

RECURSIVE SumSeq(_)
SumSeq(q) == IF q = <<>> THEN 0 ELSE Head(q) + SumSeq(Tail(q))

RECURSIVE SumOver(_, _)
SumOver(f, S) ==
  IF S = {} THEN 0
  ELSE LET e == CHOOSE e \in S : TRUE IN f[e] + SumOver(f, S \ {e})

\* Every extent of the geometry, local and process grid, is at least k.
AllExtentsAtLeast(g, k) ==
  /\ g.nx >= k /\ g.ny >= k /\ g.nz >= k
  /\ g.npx >= k /\ g.npy >= k /\ g.npz >= k

\* Slots of local row r of process p whose global column is the row's own
\* global index.
OwnSlots(p, r) ==
  { k \in 1..nonzerosInRow[p][r] : mtxIndG[p][r][k] = localToGlobalMap[p][r] }

\* C3: after GenerateProblem, every local row has exactly one entry whose
\* global column is the row's own global index; that entry is 27.0 and is
\* the slot matrixDiagonal refers to; every other entry of the row is -1.0.
C3_RowValues ==
  \A p \in Procs : Done(p) =>
    \A r \in Rows(localNumberOfRows[p]) :
      /\ Len(matrixValues[p][r]) = nonzerosInRow[p][r]
      /\ Len(mtxIndG[p][r]) = nonzerosInRow[p][r]
      /\ Cardinality(OwnSlots(p, r)) = 1
      /\ \A k \in 1..nonzerosInRow[p][r] :
           IF k \in OwnSlots(p, r)
           THEN matrixValues[p][r][k] = 27 /\ matrixDiagonal[p][r] = k
           ELSE matrixValues[p][r][k] = -1

\* C3 witness: a finished process with a full row whose diagonal is the
\* 14th slot and a clipped row whose diagonal is the first slot.
C3_Witness ==
  \E p \in Procs :
    /\ Done(p)
    /\ \E r \in Rows(localNumberOfRows[p]) :
         nonzerosInRow[p][r] = 27 /\ matrixDiagonal[p][r] = 14
    /\ \E r \in Rows(localNumberOfRows[p]) :
         nonzerosInRow[p][r] = 8 /\ matrixDiagonal[p][r] = 1

\* The global coordinates of local grid point (ix, iy, iz) are interior to
\* the global domain.
InteriorPoint(g, ix, iy, iz) ==
  /\ g.ipx * g.nx + ix > 0 /\ g.ipx * g.nx + ix < g.nx * g.npx - 1
  /\ g.ipy * g.ny + iy > 0 /\ g.ipy * g.ny + iy < g.ny * g.npy - 1
  /\ g.ipz * g.nz + iz > 0 /\ g.ipz * g.nz + iz < g.nz * g.npz - 1

\* C4: when all six extents are at least 3, every local row has between 8
\* and 27 nonzeros and every row of an interior grid point has exactly 27.
C4_CountRange ==
  \A p \in Procs : (Done(p) /\ AllExtentsAtLeast(geom[p], 3)) =>
    \A ix \in 0..(geom[p].nx - 1), iy \in 0..(geom[p].ny - 1), iz \in 0..(geom[p].nz - 1) :
      LET r == iz * geom[p].nx * geom[p].ny + iy * geom[p].nx + ix
      IN  /\ nonzerosInRow[p][r] >= 8
          /\ nonzerosInRow[p][r] <= 27
          /\ InteriorPoint(geom[p], ix, iy, iz) => nonzerosInRow[p][r] = 27

\* C4 witness: a finished process of a grid with all extents >= 3 that owns
\* an interior row (27 nonzeros), a global corner (8) and a global edge (12).
C4_Witness ==
  \E p \in Procs :
    /\ Done(p) /\ AllExtentsAtLeast(geom[p], 3)
    /\ \E ix \in 0..(geom[p].nx - 1), iy \in 0..(geom[p].ny - 1), iz \in 0..(geom[p].nz - 1) :
         /\ InteriorPoint(geom[p], ix, iy, iz)
         /\ nonzerosInRow[p][iz * geom[p].nx * geom[p].ny + iy * geom[p].nx + ix] = 27
    /\ \E r \in Rows(localNumberOfRows[p]) : nonzerosInRow[p][r] = 8
    /\ \E r \in Rows(localNumberOfRows[p]) : nonzerosInRow[p][r] = 12

\* C5 as stated: every finished geometry has between 8 and 27 nonzeros in
\* every row and a diagonal slot set for every row.
C5_Original ==
  \A p \in Procs : Done(p) =>
    \A r \in Rows(localNumberOfRows[p]) :
      /\ nonzerosInRow[p][r] >= 8
      /\ nonzerosInRow[p][r] <= 27
      /\ matrixDiagonal[p][r] # 0

\* C5 amended: every row of a finished geometry has between 1 and 27
\* nonzeros, at least 8 when every global extent is 2 or more, and its
\* diagonal slot is set.
C5_CountAndDiagonal ==
  \A p \in Procs : Done(p) =>
    \A r \in Rows(localNumberOfRows[p]) :
      /\ nonzerosInRow[p][r] >= 1
      /\ nonzerosInRow[p][r] <= 27
      /\ (gnx(geom[p]) >= 2 /\ gny(geom[p]) >= 2 /\ gnz(geom[p]) >= 2)
           => nonzerosInRow[p][r] >= 8
      /\ matrixDiagonal[p][r] \in 1..nonzerosInRow[p][r]

\* C5 witness: a finished single-point domain (one nonzero, the diagonal)
\* and, in another run, rows of 2, 4 and 8 nonzeros.
C5_Witness ==
  \E p \in Procs :
    /\ Done(p)
    /\ gnx(geom[p]) = 1 /\ gny(geom[p]) >= 2 /\ gnz(geom[p]) >= 2
    /\ \E r \in Rows(localNumberOfRows[p]) :
         nonzerosInRow[p][r] = 4 /\ matrixDiagonal[p][r] # 0

\* Process p sits at a corner of the process grid.
AtGridCorner(g) ==
  /\ g.ipx \in {0, g.npx - 1}
  /\ g.ipy \in {0, g.npy - 1}
  /\ g.ipz \in {0, g.npz - 1}

\* The smallest nonzero count among the rows of process p.
MinCount(p) ==
  CHOOSE m \in 1..numberOfNonzerosPerRow :
    /\ \E r \in Rows(localNumberOfRows[p]) : nonzerosInRow[p][r] = m
    /\ \A r \in Rows(localNumberOfRows[p]) : nonzerosInRow[p][r] >= m

RowsWithMinCount(p) ==
  { r \in Rows(localNumberOfRows[p]) : nonzerosInRow[p][r] = MinCount(p) }

\* C6 as stated: with all extents >= 3, a process at a corner of the process
\* grid has exactly 8 rows with the minimum nonzero count.
C6_Original ==
  \A p \in Procs :
    (Done(p) /\ AllExtentsAtLeast(geom[p], 3) /\ AtGridCorner(geom[p])) =>
      Cardinality(RowsWithMinCount(p)) = 8

\* The local row of process p that is the corner of the global domain the
\* process touches (p at a corner of the process grid).
GlobalCornerRow(g) ==
  LET ix == IF g.ipx = 0 THEN 0 ELSE g.nx - 1
      iy == IF g.ipy = 0 THEN 0 ELSE g.ny - 1
      iz == IF g.ipz = 0 THEN 0 ELSE g.nz - 1
  IN  iz * g.nx * g.ny + iy * g.nx + ix

\* C6 amended: with all extents >= 3, a process at a corner of the process
\* grid has exactly one row with the minimum nonzero count, which is 8:
\* the row of the global domain corner it owns.
C6_OneMinimalRow ==
  \A p \in Procs :
    (Done(p) /\ AllExtentsAtLeast(geom[p], 3) /\ AtGridCorner(geom[p])) =>
      /\ MinCount(p) = 8
      /\ RowsWithMinCount(p) = {GlobalCornerRow(geom[p])}

\* C6 witness: a finished corner process of a grid with all extents >= 3
\* whose eight local corners do not all have the minimum count.
C6_Witness ==
  \E p \in Procs :
    /\ Done(p) /\ AllExtentsAtLeast(geom[p], 3) /\ AtGridCorner(geom[p])
    /\ geom[p].ipx = geom[p].npx - 1 /\ geom[p].ipy = 0
    /\ nonzerosInRow[p][0] > 8
    /\ nonzerosInRow[p][localNumberOfRows[p] - 1] > 8

\* xexact at global column col as process p sees it: its own entry for a
\* column it owns, 1.0 (what the owner stores) otherwise.
XexactAt(p, col) ==
  IF col \in DOMAIN globalToLocalMap[p]
  THEN xexact[p][globalToLocalMap[p][col]] ELSE 1

\* (A*xexact)[r] on process p.
RECURSIVE RowTimesXexact(_, _, _)
RowTimesXexact(p, r, k) ==
  IF k = 0 THEN 0
  ELSE matrixValues[p][r][k] * XexactAt(p, mtxIndG[p][r][k]) + RowTimesXexact(p, r, k - 1)

\* C7: after GenerateProblem x is 0.0, xexact is 1.0 and b is
\* 27 - (nonzerosInRow - 1) on every row; A*xexact = b row by row; and the
\* sum of b is the sum of 27 - (nnz - 1).
C7_Vectors ==
  \A p \in Procs : Done(p) =>
    /\ DOMAIN x[p] = Rows(localNumberOfRows[p])
    /\ DOMAIN b[p] = Rows(localNumberOfRows[p])
    /\ DOMAIN xexact[p] = Rows(localNumberOfRows[p])
    /\ \A r \in Rows(localNumberOfRows[p]) :
         /\ x[p][r] = 0
         /\ xexact[p][r] = 1
         /\ b[p][r] = 27 - (nonzerosInRow[p][r] - 1)
         /\ RowTimesXexact(p, r, nonzerosInRow[p][r]) = b[p][r]
    /\ SumOver(b[p], Rows(localNumberOfRows[p]))
         = 27 * localNumberOfRows[p]
           - (SumOver(nonzerosInRow[p], Rows(localNumberOfRows[p])) - localNumberOfRows[p])

\* C7 witness: a finished process with an interior row (b = 1.0) and a
\* global corner row (b = 20.0).
C7_Witness ==
  \E p \in Procs :
    /\ Done(p)
    /\ \E r \in Rows(localNumberOfRows[p]) : nonzerosInRow[p][r] = 27 /\ b[p][r] = 1
    /\ \E r \in Rows(localNumberOfRows[p]) : nonzerosInRow[p][r] = 8 /\ b[p][r] = 20


(***************************************************************************)
(* SpecPre: the precondition checks alone, on extents large enough for the *)
(* int products to overflow.  The process is rank 0 of a size x 1 x 1      *)
(* process grid.  build.trapv: the build traps on signed overflow;         *)
(* build.nolonglong: HPCG_NO_LONG_LONG, global_int_t is int (otherwise     *)
(* long long).                                                             *)
(***************************************************************************)
LargeExtents == {0, 1, 2, 1024, 46341, 65536, 65537}
LargeSizes == {1, 2, 8, 4096}

InitPre ==
  /\ \E tv \in BOOLEAN, nll \in BOOLEAN :
       build = [omp |-> FALSE, mpi |-> FALSE, trapv |-> tv, nolonglong |-> nll]
  /\ \E nx \in LargeExtents, ny \in LargeExtents, nz \in LargeExtents, size \in LargeSizes :
       geom = (0 :> [nx |-> nx, ny |-> ny, nz |-> nz,
                     npx |-> size, npy |-> 1, npz |-> 1,
                     ipx |-> 0, ipy |-> 0, ipz |-> 0,
                     size |-> size, rank |-> 0])
  /\ InitProcs({0})

NextPre ==
  /\ UNCHANGED resVars
  /\ \E p \in Procs : GenPrecheck(p)

SpecPre == InitPre /\ [][NextPre]_vars

\* The mathematical value nx*ny*nz is positive and representable in
\* local_int_t (int).
LocalCountOk(g) ==
  /\ g.nx > 0 /\ g.ny > 0 /\ g.nz > 0
  /\ MulFits(g.nx, g.ny)
  /\ MulFits(g.nx * g.ny, g.nz)

\* The mathematical value nx*ny*nz*size is positive and representable in
\* global_int_t: in int under HPCG_NO_LONG_LONG; in long long otherwise,
\* which holds every product of LargeExtents and LargeSizes (below 2^61).
TotalCountOk(g) ==
  /\ g.nx > 0 /\ g.ny > 0 /\ g.nz > 0 /\ g.size > 0
  /\ build.nolonglong =>
       /\ MulFits(g.nx, g.ny)
       /\ MulFits(g.nx * g.ny, g.nz)
       /\ MulFits(g.nx * g.ny * g.nz, g.size)

\* C10: whenever the local row count or the total row count is not
\* positive or not representable in its index type, GenerateProblem aborts
\* at its precondition checks and does not go on to populate the matrix.
C10_OverflowDetected ==
  \A p \in Procs :
    (~LocalCountOk(geom[p]) \/ ~TotalCountOk(geom[p])) => pc[p] # "checked"


(***************************************************************************)
(* GenerateProblem in the OpenMP build (no MPI), thread by thread.         *)
(*                                                                         *)
(* The iterations of the iz loop (line 109) are handed to the threads of   *)
(* the team in any order; a thread runs the iy and ix loops of its         *)
(* iteration sequentially.  Both omp critical constructs are unnamed, so   *)
(* they share one lock per process.  Inside a critical construct the       *)
(* shared object is read when the lock is taken and written back before    *)
(* it is released: std::map::operator[] and += are read-modify-write.      *)
(***************************************************************************)
Threads == 1..NumThreads

\* A thread of the team before it is handed an iteration.
IdleThread ==
  [pc |-> "idle", iz |-> -1, iy |-> 0, ix |-> 0,
   numberOfNonzerosInRow |-> 0, reg |-> 0, map |-> <<>>]

\* Lines 72-83: the arrays of length localNumberOfRows are allocated.  Only
\* A.localToGlobalMap, which resize() fills with zeros, has contents.
AllocatedArrays(n) ==
  [globalToLocalMap |-> <<>>,
   localToGlobalMap |-> [r \in Rows(n) |-> 0],
   nonzerosInRow |-> <<>>,
   mtxIndG |-> <<>>,
   matrixValues |-> <<>>,
   matrixDiagonal |-> <<>>,
   x |-> <<>>, b |-> <<>>, xexact |-> <<>>,
   localNumberOfNonzeros |-> 0]

\* The null pointer that lines 90-93 store.
NullPointer == 0

\* Lines 72-87: the arrays are allocated and the team of the first parallel
\* loop, the one that clears the arrays of pointers, is formed.
GenAlloc(p) ==
  /\ pc[p] = "checked"
  /\ build.omp
  /\ StoreLoops(p, AllocatedArrays(localNumberOfRows[p]))
  /\ thr' = [thr EXCEPT ![p] = [t \in Threads |-> IdleThread]]
  /\ izTaken' = [izTaken EXCEPT ![p] = {}]
  /\ critical' = [critical EXCEPT ![p] = 0]
  /\ pc' = [pc EXCEPT ![p] = "zero"]
  /\ UNCHANGED <<cfgVars, rowVars, A, histVars, sumBuf>>

\* Lines 89-94: thread t runs iteration i of the first parallel loop:
\* matrixValues[i] = 0; matrixDiagonal[i] = 0; mtxIndG[i] = 0.
ZeroRow(p, t, i) ==
  /\ pc[p] = "zero"
  /\ thr[p][t].pc = "idle"
  /\ i \in Rows(localNumberOfRows[p])
  /\ i \notin DOMAIN matrixDiagonal[p]
  /\ matrixValues' = [matrixValues EXCEPT ![p] = Put(@, i, NullPointer)]
  /\ matrixDiagonal' = [matrixDiagonal EXCEPT ![p] = Put(@, i, NullPointer)]
  /\ mtxIndG' = [mtxIndG EXCEPT ![p] = Put(@, i, NullPointer)]
  /\ UNCHANGED <<cfgVars, pc, rowVars, localNumberOfNonzeros, globalToLocalMap,
                 localToGlobalMap, nonzerosInRow, vecVars, A, ompVars, sumBuf>>

\* Lines 94-107: the barrier that ends the first parallel loop (every
\* iteration has run); then the master alone allocates the arrays of the
\* rows, sets localNumberOfNonzeros = 0, and the team of the generation
\* loop is formed.
GenAllocRows(p) ==
  /\ pc[p] = "zero"
  /\ DOMAIN matrixDiagonal[p] = Rows(localNumberOfRows[p])
  /\ mtxIndG' = [mtxIndG EXCEPT ![p] = [r \in Rows(localNumberOfRows[p]) |-> <<>>]]
  /\ matrixValues' = [matrixValues EXCEPT ![p] = [r \in Rows(localNumberOfRows[p]) |-> <<>>]]
  /\ localNumberOfNonzeros' = [localNumberOfNonzeros EXCEPT ![p] = 0]
  /\ thr' = [thr EXCEPT ![p] = [t \in Threads |-> IdleThread]]
  /\ izTaken' = [izTaken EXCEPT ![p] = {}]
  /\ critical' = [critical EXCEPT ![p] = 0]
  /\ pc' = [pc EXCEPT ![p] = "loop"]
  /\ UNCHANGED <<cfgVars, rowVars, globalToLocalMap, localToGlobalMap, nonzerosInRow,
                 matrixDiagonal, vecVars, A, histVars, sumBuf>>

\* History: one more entry of local row r into a critical construct.
CountEntry(entries, r) ==
  Put(entries, r, IF r \in DOMAIN entries THEN entries[r] + 1 ELSE 1)

\* History: thread t, in the iteration at grid point it = <<iz, iy, ix>>,
\* stored into element index of each of the arrays named.
Wrote(w, arrays, index, t, it) ==
  w \cup { [array |-> a, index |-> index, thread |-> t, iteration |-> it] : a \in arrays }

MutCriticalAlwaysFree(p) == TRUE

\* The unnamed critical construct of process p can be entered.
CriticalFree(p) == critical[p] = 0

MutMapInsertionSwapped(map, currentGlobalRow, currentLocalRow) ==
  Put(map, currentLocalRow, currentGlobalRow)

\* A.globalToLocalMap[currentGlobalRow] = currentLocalRow;
MapInsertion(map, currentGlobalRow, currentLocalRow) ==
  Put(map, currentGlobalRow, currentLocalRow)

\* omp parallel for: thread t is handed iteration iz of the iz loop.
TakeIz(p, t, iz) ==
  /\ pc[p] = "loop"
  /\ thr[p][t].pc = "idle"
  /\ iz \in 0..(geom[p].nz - 1)
  /\ iz \notin izTaken[p]
  /\ izTaken' = [izTaken EXCEPT ![p] = @ \cup {iz}]
  /\ thr' = [thr EXCEPT ![p][t] =
               [@ EXCEPT !.pc = IF geom[p].ny > 0 /\ geom[p].nx > 0 THEN "map_wait" ELSE "idle",
                         !.iz = iz, !.iy = 0, !.ix = 0]]
  /\ UNCHANGED <<cfgVars, pc, rowVars, localNumberOfNonzeros, matVars, vecVars, A,
                 critical, histVars, sumBuf>>

\* Line 119: enter the critical construct around the map insertion.
MapEnter(p, t) ==
  /\ pc[p] = "loop"
  /\ thr[p][t].pc = "map_wait"
  /\ CriticalFree(p)
  /\ critical' = [critical EXCEPT ![p] = t]
  /\ thr' = [thr EXCEPT ![p][t] = [@ EXCEPT !.pc = "map_in", !.map = globalToLocalMap[p]]]
  /\ criticalEntries' =
       [criticalEntries EXCEPT ![p].map =
          CountEntry(@, CurrentLocalRow(geom[p], thr[p][t].ix, thr[p][t].iy, thr[p][t].iz))]
  /\ UNCHANGED <<cfgVars, pc, rowVars, localNumberOfNonzeros, matVars, vecVars, A,
                 izTaken, writers, sumBuf>>

\* Line 121: the insertion, and the end of the critical construct.
MapInsert(p, t) ==
  /\ pc[p] = "loop"
  /\ thr[p][t].pc = "map_in"
  /\ LET me == thr[p][t]
         l == CurrentLocalRow(geom[p], me.ix, me.iy, me.iz)
         grow == CurrentGlobalRow(geom[p], me.ix, me.iy, me.iz)
     IN  globalToLocalMap' = [globalToLocalMap EXCEPT ![p] = MapInsertion(me.map, grow, l)]
  /\ critical' = [critical EXCEPT ![p] = 0]
  /\ thr' = [thr EXCEPT ![p][t] = [@ EXCEPT !.pc = "row", !.map = <<>>]]
  /\ UNCHANGED <<cfgVars, pc, rowVars, localNumberOfNonzeros, localToGlobalMap,
                 nonzerosInRow, mtxIndG, matrixValues, matrixDiagonal, vecVars, A,
                 izTaken, histVars, sumBuf>>

\* Lines 123-152: the row of the current grid point.
RowCompute(p, t) ==
  /\ pc[p] = "loop"
  /\ thr[p][t].pc = "row"
  /\ \E row \in {StencilRow(geom[p], thr[p][t].ix, thr[p][t].iy, thr[p][t].iz)} :
       LET me == thr[p][t]
           l == CurrentLocalRow(geom[p], me.ix, me.iy, me.iz)
           grow == CurrentGlobalRow(geom[p], me.ix, me.iy, me.iz)
       IN  /\ localToGlobalMap' = [localToGlobalMap EXCEPT ![p] = Put(@, l, grow)]
           /\ mtxIndG' = [mtxIndG EXCEPT ![p] = Put(@, l, row.cols)]
           /\ matrixValues' = [matrixValues EXCEPT ![p] = Put(@, l, row.vals)]
           /\ matrixDiagonal' = [matrixDiagonal EXCEPT ![p] =
                                   IF row.diag = 0 THEN @ ELSE Put(@, l, row.diag)]
           /\ nonzerosInRow' = [nonzerosInRow EXCEPT ![p] = Put(@, l, row.nnz)]
           /\ thr' = [thr EXCEPT ![p][t] =
                        [@ EXCEPT !.pc = "nnz_wait", !.numberOfNonzerosInRow = row.nnz]]
           /\ writers' =
                [writers EXCEPT ![p] =
                   Wrote(@, {"localToGlobalMap", "mtxIndG", "matrixValues", "nonzerosInRow"}
                              \cup (IF row.diag = 0 THEN {} ELSE {"matrixDiagonal"}),
                         l, t, <<me.iz, me.iy, me.ix>>)]
  /\ UNCHANGED <<cfgVars, pc, rowVars, localNumberOfNonzeros, globalToLocalMap, vecVars, A,
                 izTaken, critical, criticalEntries, sumBuf>>

\* Line 154: enter the critical construct around the accumulation; the
\* accumulator is loaded.
NnzEnter(p, t) ==
  /\ pc[p] = "loop"
  /\ thr[p][t].pc = "nnz_wait"
  /\ CriticalFree(p)
  /\ critical' = [critical EXCEPT ![p] = t]
  /\ thr' = [thr EXCEPT ![p][t] = [@ EXCEPT !.pc = "nnz_in", !.reg = localNumberOfNonzeros[p]]]
  /\ criticalEntries' =
       [criticalEntries EXCEPT ![p].nnz =
          CountEntry(@, CurrentLocalRow(geom[p], thr[p][t].ix, thr[p][t].iy, thr[p][t].iz))]
  /\ UNCHANGED <<cfgVars, pc, rowVars, localNumberOfNonzeros, matVars, vecVars, A,
                 izTaken, writers, sumBuf>>

\* Line 156: localNumberOfNonzeros += numberOfNonzerosInRow; the sum is
\* stored and the critical construct ends.
NnzWrite(p, t) ==
  /\ pc[p] = "loop"
  /\ thr[p][t].pc = "nnz_in"
  /\ localNumberOfNonzeros' =
       [localNumberOfNonzeros EXCEPT ![p] = thr[p][t].reg + thr[p][t].numberOfNonzerosInRow]
  /\ critical' = [critical EXCEPT ![p] = 0]
  /\ thr' = [thr EXCEPT ![p][t] = [@ EXCEPT !.pc = "vec", !.reg = 0]]
  /\ UNCHANGED <<cfgVars, pc, rowVars, matVars, vecVars, A, izTaken, histVars, sumBuf>>

\* Lines 157-161: the three vector entries, then the next grid point of the
\* iteration, or the end of the iteration.
VecSet(p, t) ==
  /\ pc[p] = "loop"
  /\ thr[p][t].pc = "vec"
  /\ LET me == thr[p][t]
         l == CurrentLocalRow(geom[p], me.ix, me.iy, me.iz)
     IN  /\ x' = [x EXCEPT ![p] = Put(@, l, 0)]
         /\ b' = [b EXCEPT ![p] = Put(@, l, BValue(me.numberOfNonzerosInRow))]
         /\ xexact' = [xexact EXCEPT ![p] = Put(@, l, 1)]
         /\ thr' = [thr EXCEPT ![p][t] =
                      IF me.ix + 1 < geom[p].nx
                      THEN [@ EXCEPT !.pc = "map_wait", !.ix = me.ix + 1,
                                     !.numberOfNonzerosInRow = 0]
                      ELSE IF me.iy + 1 < geom[p].ny
                      THEN [@ EXCEPT !.pc = "map_wait", !.ix = 0, !.iy = me.iy + 1,
                                     !.numberOfNonzerosInRow = 0]
                      ELSE [@ EXCEPT !.pc = "idle", !.ix = 0, !.iy = 0,
                                     !.numberOfNonzerosInRow = 0]]
         /\ writers' = [writers EXCEPT ![p] =
                          Wrote(@, {"x", "b", "xexact"}, l, t, <<me.iz, me.iy, me.ix>>)]
  /\ UNCHANGED <<cfgVars, pc, rowVars, localNumberOfNonzeros, matVars, A,
                 izTaken, critical, criticalEntries, sumBuf>>

\* The parallel loop has ended: every iteration was handed out and every
\* thread is through its iterations (the barrier that ends the loop).
LoopJoined(p) ==
  /\ izTaken[p] = 0..(geom[p].nz - 1)
  /\ \A t \in Threads : thr[p][t].pc = "idle"

\* Lines 168-197 without MPI: the local count is the total (line 179).
GenFinishNoMPI(p) ==
  /\ pc[p] = "loop"
  /\ ~build.mpi
  /\ LoopJoined(p)
  /\ UNCHANGED localNumberOfNonzeros
  /\ IF AssertTotalNonzeros(Widen(localNumberOfNonzeros[p]))
     THEN /\ A' = [A EXCEPT ![p] = AFields(p, Widen(localNumberOfNonzeros[p]))]
          /\ pc' = [pc EXCEPT ![p] = "done"]
     ELSE /\ A' = A
          /\ pc' = [pc EXCEPT ![p] = "assert_totalNumberOfNonzeros"]
  /\ UNCHANGED <<cfgVars, rowVars, matVars, vecVars, ompVars, sumBuf>>

InitOmp ==
  /\ build = [omp |-> TRUE, mpi |-> FALSE, trapv |-> FALSE, nolonglong |-> FALSE]
  /\ \E g \in OneProcGeometries(1, MaxNT, MaxNPT) :
       /\ InGrid(g)
       /\ geom = (g.rank :> g)
       /\ InitProcs({g.rank})

ThreadStep(p, t) ==
  \/ \E i \in Rows(localNumberOfRows[p]) : ZeroRow(p, t, i)
  \/ \E iz \in 0..(geom[p].nz - 1) : TakeIz(p, t, iz)
  \/ MapEnter(p, t)
  \/ MapInsert(p, t)
  \/ RowCompute(p, t)
  \/ NnzEnter(p, t)
  \/ NnzWrite(p, t)
  \/ VecSet(p, t)

Next ==
  /\ UNCHANGED resVars
  /\ \E p \in Procs :
       \/ GenPrecheck(p)
       \/ GenAlloc(p)
       \/ GenAllocRows(p)
       \/ \E t \in Threads : ThreadStep(p, t)
       \/ GenFinishNoMPI(p)

Spec == InitOmp /\ [][Next]_vars


(***************************************************************************)
(* Claims on the thread-level generation.                                  *)
(***************************************************************************)
\* Every thread of the team of process p has run an iteration of the loop.
AllThreadsRan(p) == \A t \in Threads : thr[p][t].iz # -1

\* C2: after GenerateProblem returns, under any thread schedule, the
\* local-to-global map has one entry per local row with pairwise distinct
\* values, the global-to-local map has exactly those values as its keys, and
\* globalToLocalMap[localToGlobalMap[r]] = r for every local row r.
C2_RoundTrip ==
  \A p \in Procs : Done(p) =>
    LET rows == Rows(geom[p].nx * geom[p].ny * geom[p].nz) IN
      /\ DOMAIN localToGlobalMap[p] = rows
      /\ \A r, q \in rows :
           localToGlobalMap[p][r] = localToGlobalMap[p][q] => r = q
      /\ DOMAIN globalToLocalMap[p] = { localToGlobalMap[p][r] : r \in rows }
      /\ \A r \in rows : globalToLocalMap[p][localToGlobalMap[p][r]] = r

\* A process away from rank 0 has returned with its rows built by all
\* threads; its global row numbers differ from its local ones.
C2_Witness ==
  \E p \in Procs :
    /\ Done(p)
    /\ build.omp
    /\ AllThreadsRan(p)
    /\ geom[p].ipx > 0
    /\ localNumberOfRows[p] >= 4
    /\ \A r \in Rows(localNumberOfRows[p]) :
         /\ localToGlobalMap[p][r] # r
         /\ globalToLocalMap[p][localToGlobalMap[p][r]] = r

\* C8: when the rows are processed by several threads in any interleaving,
\* A.localNumberOfNonzeros at return is the sum of nonzerosInRow over all
\* local rows.
C8_NoLostIncrements ==
  \A p \in Procs : Done(p) =>
    A[p].localNumberOfNonzeros =
      SumOver(nonzerosInRow[p], Rows(geom[p].nx * geom[p].ny * geom[p].nz))

\* A process has returned from a generation in which every thread added
\* rows to the count, and the count is the sum over its eight rows.
C8_Witness ==
  \E p \in Procs :
    /\ Done(p)
    /\ build.omp
    /\ AllThreadsRan(p)
    /\ localNumberOfRows[p] = 8
    /\ A[p].localNumberOfNonzeros = SumOver(nonzerosInRow[p], Rows(8))
    /\ A[p].localNumberOfNonzeros >= 64


(***************************************************************************)
(* GenerateProblem in the MPI build (no OpenMP), on every rank of a        *)
(* process grid.  MPI_Allreduce is a collective: a rank hands in its       *)
(* operand when it calls, and returns once every rank has called.          *)
(***************************************************************************)
\* The process grids of the runs that start at the entry of
\* GenerateProblem (1, 2 and 3 ranks), and the grid of 8 ranks, whose runs
\* start at line 168.
ProcessGrids == { <<1, 1, 1>>, <<2, 1, 1>>, <<3, 1, 1>> }
CubeGrid == <<2, 2, 2>>

\* The geometries of all ranks of a grid; rank = ipx + ipy*npx + ipz*npx*npy.
GridGeometries(grid, nx, ny, nz) ==
  [ r \in 0..(grid[1] * grid[2] * grid[3] - 1) |->
      Geometry(nx, ny, nz, grid[1], grid[2], grid[3],
               r % grid[1], (r \div grid[1]) % grid[2], r \div (grid[1] * grid[2])) ]

\* The value of localNumberOfNonzeros when the loop nest (lines 104-162)
\* has ended: per axis, three stencil offsets for each of the n points, less
\* one at each end of the axis that lies on the boundary of the global grid.
AxisCount(n, np, ip) ==
  3 * n - (IF ip = 0 THEN 1 ELSE 0) - (IF ip = np - 1 THEN 1 ELSE 0)

LocalNumberOfNonzerosAfterLoops(g) ==
  AxisCount(g.nx, g.npx, g.ipx) * AxisCount(g.ny, g.npy, g.ipy)
    * AxisCount(g.nz, g.npz, g.ipz)

\* The closed form is the count the loop nest produces.
LoopCountAgrees ==
  \A p \in Procs : Done(p) =>
    localNumberOfNonzeros[p] = LocalNumberOfNonzerosAfterLoops(geom[p])

\* Every rank at line 168, the loop nest behind it: memory[p] is what
\* lines 72-162 have left in the memory of process p.
AtReduction(ranks, memory) ==
  /\ pc = [p \in ranks |-> "reduce"]
  /\ localNumberOfRows = [p \in ranks |-> LocalNumberOfRows(geom[p])]
  /\ totalNumberOfRows = [p \in ranks |-> TotalNumberOfRows(geom[p])]
  /\ localNumberOfNonzeros = [p \in ranks |-> memory[p].localNumberOfNonzeros]
  /\ globalToLocalMap = [p \in ranks |-> memory[p].globalToLocalMap]
  /\ localToGlobalMap = [p \in ranks |-> memory[p].localToGlobalMap]
  /\ nonzerosInRow = [p \in ranks |-> memory[p].nonzerosInRow]
  /\ mtxIndG = [p \in ranks |-> memory[p].mtxIndG]
  /\ matrixValues = [p \in ranks |-> memory[p].matrixValues]
  /\ matrixDiagonal = [p \in ranks |-> memory[p].matrixDiagonal]
  /\ x = [p \in ranks |-> memory[p].x]
  /\ b = [p \in ranks |-> memory[p].b]
  /\ xexact = [p \in ranks |-> memory[p].xexact]
  /\ A = [p \in ranks |-> <<>>]
  /\ thr = [p \in ranks |-> <<>>]
  /\ izTaken = [p \in ranks |-> {}]
  /\ critical = [p \in ranks |-> 0]
  /\ criticalEntries = [p \in ranks |-> [map |-> <<>>, nnz |-> <<>>]]
  /\ writers = [p \in ranks |-> {}]
  /\ sumBuf = <<>>
  /\ NoResidualCall

\* The memory of a process with geometry g after lines 72-162, every row
\* built by the loop nest.
MemoryAfterLoops(g) == IzLoop(g, Allocated(LocalNumberOfRows(g)), 0)

InitAtReduction(ranks) ==
  AtReduction(ranks, [p \in ranks |-> MemoryAfterLoops(geom[p])])

\* An array of n filled rows whose elements are not enumerated.
FilledRows(n) == [rows |-> n]

\* The memory of a process with extents of LargeN after lines 72-162.  Each
\* array has LargeN^3 rows; in place of its elements the model holds the
\* number of rows filled.  localNumberOfNonzeros is the count the loop nest
\* produces (LoopCountAgrees).  Lines 168-197 read none of the arrays.
LargeMemoryAfterLoops(g) ==
  [globalToLocalMap |-> FilledRows(LocalNumberOfRows(g)),
   localToGlobalMap |-> FilledRows(LocalNumberOfRows(g)),
   nonzerosInRow |-> FilledRows(LocalNumberOfRows(g)),
   mtxIndG |-> FilledRows(LocalNumberOfRows(g)),
   matrixValues |-> FilledRows(LocalNumberOfRows(g)),
   matrixDiagonal |-> FilledRows(LocalNumberOfRows(g)),
   x |-> FilledRows(LocalNumberOfRows(g)),
   b |-> FilledRows(LocalNumberOfRows(g)),
   xexact |-> FilledRows(LocalNumberOfRows(g)),
   localNumberOfNonzeros |-> LocalNumberOfNonzerosAfterLoops(g)]

InitAtReductionLarge(ranks) ==
  AtReduction(ranks, [p \in ranks |-> LargeMemoryAfterLoops(geom[p])])

\* Lines 72-162 in the MPI build without OpenMP: allocate, run the loop nest.
GenLoopsMPI(p) ==
  /\ pc[p] = "checked"
  /\ ~build.omp /\ build.mpi
  /\ \E st \in {IzLoop(geom[p], Allocated(localNumberOfRows[p]), 0)} : StoreLoops(p, st)
  /\ pc' = [pc EXCEPT ![p] = "reduce"]
  /\ UNCHANGED <<cfgVars, rowVars, A, ompVars, sumBuf>>

\* Lines 172 and 174-175: the operand of the reduction.  It is an int under
\* HPCG_NO_LONG_LONG and a long long otherwise; either is written here as
\* the 64-bit value it has.
SendOperand(p) == Widen(localNumberOfNonzeros[p])

\* Process p calls MPI_Allreduce.
AllreduceCall(p) ==
  /\ pc[p] = "reduce"
  /\ build.mpi
  /\ sumBuf' = Put(sumBuf, p, SendOperand(p))
  /\ pc' = [pc EXCEPT ![p] = "allreduce"]
  /\ UNCHANGED <<cfgVars, rowVars, localNumberOfNonzeros, matVars, vecVars, A, ompVars>>

RECURSIVE WideSumOver(_, _)
WideSumOver(f, S) ==
  IF S = {} THEN Widen(0)
  ELSE LET e == CHOOSE e \in S : TRUE IN WideAdd(f[e], WideSumOver(f, S \ {e}))

\* MPI_SUM over the operands of all ranks, as rank p receives it: in 64 bits
\* for MPI_LONG_LONG_INT, in the 32 bits of an int for MPI_INT.
ReduceSum(buf, p) ==
  IF build.nolonglong
  THEN Widen(NarrowInt(WideSumOver(buf, DOMAIN buf)))
  ELSE WideSumOver(buf, DOMAIN buf)

\* Mutant of AllContributed: the collective does not wait for the others.
MutAllContributedNoWait(buf, ranks) == TRUE

\* MPI_Allreduce can return: every rank of the communicator has handed in
\* its operand.
AllContributed(buf, ranks) == DOMAIN buf = ranks

\* MPI_Allreduce returns on process p; lines 176 and 183-197.
AllreduceReturn(p) ==
  /\ pc[p] = "allreduce"
  /\ AllContributed(sumBuf, Procs)
  /\ UNCHANGED localNumberOfNonzeros
  /\ \E total \in {ReduceSum(sumBuf, p)} :
       IF AssertTotalNonzeros(total)
       THEN /\ A' = [A EXCEPT ![p] = AFields(p, total)]
            /\ pc' = [pc EXCEPT ![p] = "done"]
       ELSE /\ A' = A
            /\ pc' = [pc EXCEPT ![p] = "assert_totalNumberOfNonzeros"]
  /\ UNCHANGED <<cfgVars, rowVars, matVars, vecVars, ompVars, sumBuf>>

InitMPI ==
  /\ \E nolonglong \in BOOLEAN :
       build = [omp |-> FALSE, mpi |-> TRUE, trapv |-> FALSE, nolonglong |-> nolonglong]
  /\ \/ \E grid \in ProcessGrids, nx \in 1..MaxNM :
          /\ geom = GridGeometries(grid, nx, 1, 1)
          /\ InitProcs(DOMAIN geom)
     \/ /\ \E nx \in 1..MaxNM : geom = GridGeometries(CubeGrid, nx, 1, 1)
        /\ InitAtReduction(DOMAIN geom)
     \/ /\ geom = GridGeometries(CubeGrid, LargeN, LargeN, LargeN)
        /\ InitAtReductionLarge(DOMAIN geom)

NextMPI ==
  /\ UNCHANGED resVars
  /\ \E p \in Procs :
       \/ GenPrecheck(p)
       \/ GenLoopsMPI(p)
       \/ AllreduceCall(p)
       \/ AllreduceReturn(p)

SpecMPI == InitMPI /\ [][NextMPI]_vars

\* Every rank has returned from GenerateProblem.
AllDone == \A p \in Procs : Done(p)

\* The sum of A.localNumberOfNonzeros over all ranks.
SumOfLocalNonzeros ==
  WideSumOver([q \in Procs |-> Widen(A[q].localNumberOfNonzeros)], Procs)

\* C9: after GenerateProblem has returned on all processes,
\* A.totalNumberOfNonzeros on every process is the sum of
\* A.localNumberOfNonzeros over all processes; with a single process it is
\* the local count.
C9_TotalIsSum ==
  AllDone => \A p \in Procs : A[p].totalNumberOfNonzeros = SumOfLocalNonzeros


(***************************************************************************)
(* ComputeResidual.  A double is written as an integer; the values of the  *)
(* runs are exactly representable, so fabs, - and > are the integer ones.  *)
(*                                                                         *)
(* In the OpenMP build every thread of the team starts with its own        *)
(* threadlocal_residual, the iterations of the omp for are handed to the   *)
(* threads in any partition, the threads meet at the barrier that ends the *)
(* omp for, and each then merges its maximum inside the critical           *)
(* construct.                                                              *)
(***************************************************************************)
ResProcs == DOMAIN localLength

\* fabs
Fabs(d) == IF d < 0 THEN 0 - d ELSE d

\* double diff = std::fabs(v1v[i] - v2v[i]);
Diff(a, c) == Fabs(a - c)

\* if (diff > current) current = diff;  the value current has afterwards.
MaxInto(diff, current) == IF diff > current THEN diff ELSE current

\* Lines 69-75: the loop of the build without OpenMP, from entry i on.
RECURSIVE SerialResidual(_, _, _, _)
SerialResidual(a, c, i, current) ==
  IF i > Len(a) THEN current
  ELSE SerialResidual(a, c, i + 1, MaxInto(Diff(a[i], c[i]), current))

\* Line 57: a thread at the start of the parallel region; share is the set
\* of iterations of the omp for that the schedule gives to the thread.
TeamThread == [pc |-> "for", threadlocal_residual |-> 0, reg |-> 0, share |-> {}]

\* The ways the iterations 1..n of the omp for can be divided among a team
\* of k threads (the schedule is implementation defined).
Schedules(n, k) == [1..n -> 1..k]

\* Lines 49-57: local_residual = 0.0; the OpenMP build forms a team of any
\* size from 1 to NumThreads, and every thread has its share of the loop.
ResBegin(p) ==
  /\ resPc[p] = "call"
  /\ local_residual' = [local_residual EXCEPT ![p] = 0]
  /\ IF build.omp
     THEN /\ \E k \in 1..NumThreads :
               \E schedule \in Schedules(localLength[p], k) :
                 team' = [team EXCEPT ![p] =
                            [t \in 1..k |->
                               [TeamThread EXCEPT
                                  !.share = { i \in 1..localLength[p] : schedule[i] = t }]]]
          /\ resPc' = [resPc EXCEPT ![p] = "parallel"]
     ELSE /\ team' = team
          /\ resPc' = [resPc EXCEPT ![p] = "serial"]
  /\ UNCHANGED <<genVars, localLength, v1, v2, taken, resCritical, maxBuf,
                 residual, ret>>

\* Lines 69-75: the serial loop.
ResSerialLoop(p) ==
  /\ resPc[p] = "serial"
  /\ local_residual' =
       [local_residual EXCEPT ![p] = SerialResidual(v1[p], v2[p], 1, local_residual[p])]
  /\ resPc' = [resPc EXCEPT ![p] = "reduce"]
  /\ UNCHANGED <<genVars, localLength, v1, v2, team, taken, resCritical, maxBuf,
                 residual, ret>>

\* Lines 58-62: thread t runs iteration i, the next of its share.
ResIteration(p, t, i) ==
  /\ resPc[p] = "parallel"
  /\ team[p][t].pc = "for"
  /\ i \in team[p][t].share
  /\ i \notin taken[p]
  /\ \A j \in team[p][t].share \ taken[p] : i <= j
  /\ taken' = [taken EXCEPT ![p] = @ \cup {i}]
  /\ team' = [team EXCEPT ![p][t].threadlocal_residual =
                MaxInto(Diff(v1[p][i], v2[p][i]), @)]
  /\ UNCHANGED <<genVars, localLength, v1, v2, resPc, resCritical, local_residual,
                 maxBuf, residual, ret>>

\* Thread t is through its share: it waits at the end of the omp for,
\* whatever the other threads have left to run.
ResForEnd(p, t) ==
  /\ resPc[p] = "parallel"
  /\ team[p][t].pc = "for"
  /\ team[p][t].share \subseteq taken[p]
  /\ team' = [team EXCEPT ![p][t].pc = "barrier"]
  /\ UNCHANGED <<genVars, localLength, v1, v2, resPc, taken, resCritical,
                 local_residual, maxBuf, residual, ret>>

\* The barrier that ends the omp for: every thread of the team has arrived.
ResBarrier(p, t) ==
  /\ resPc[p] = "parallel"
  /\ team[p][t].pc = "barrier"
  /\ \A u \in DOMAIN team[p] : team[p][u].pc # "for"
  /\ team' = [team EXCEPT ![p][t].pc = "merge_wait"]
  /\ UNCHANGED <<genVars, localLength, v1, v2, resPc, taken, resCritical,
                 local_residual, maxBuf, residual, ret>>

\* Mutant of ResCriticalFree: the lock is never granted.
MutResCriticalNeverFree(p) == FALSE

\* The critical construct of ComputeResidual can be entered.
ResCriticalFree(p) == resCritical[p] = 0

\* Lines 63-65: thread t enters the critical construct and loads
\* local_residual for the comparison.
ResMergeEnter(p, t) ==
  /\ resPc[p] = "parallel"
  /\ team[p][t].pc = "merge_wait"
  /\ ResCriticalFree(p)
  /\ resCritical' = [resCritical EXCEPT ![p] = t]
  /\ team' = [team EXCEPT ![p][t] = [@ EXCEPT !.pc = "merge_in", !.reg = local_residual[p]]]
  /\ UNCHANGED <<genVars, localLength, v1, v2, resPc, taken, local_residual,
                 maxBuf, residual, ret>>

MutMergeStoreLastWins(threadlocal_residual, loaded, current) == threadlocal_residual

\* if (threadlocal_residual>local_residual) local_residual = threadlocal_residual;
\* the value local_residual has afterwards, the comparison being made with
\* the value loaded on entry.
MergeStore(threadlocal_residual, loaded, current) ==
  IF threadlocal_residual > loaded THEN threadlocal_residual ELSE current

\* Lines 65-66: the conditional store, and the end of the critical construct.
ResMerge(p, t) ==
  /\ resPc[p] = "parallel"
  /\ team[p][t].pc = "merge_in"
  /\ local_residual' =
       [local_residual EXCEPT ![p] =
          MergeStore(team[p][t].threadlocal_residual, team[p][t].reg, @)]
  /\ resCritical' = [resCritical EXCEPT ![p] = 0]
  /\ team' = [team EXCEPT ![p][t] = [@ EXCEPT !.pc = "end", !.reg = 0]]
  /\ UNCHANGED <<genVars, localLength, v1, v2, resPc, taken, maxBuf, residual, ret>>

\* Line 67: the parallel region ends when every thread has reached its end.
ResJoin(p) ==
  /\ resPc[p] = "parallel"
  /\ \A t \in DOMAIN team[p] : team[p][t].pc = "end"
  /\ resPc' = [resPc EXCEPT ![p] = "reduce"]
  /\ UNCHANGED <<genVars, localLength, v1, v2, team, taken, resCritical,
                 local_residual, maxBuf, residual, ret>>

\* Line 84 and 87 without MPI: *residual = local_residual; return(0).
ResReturnNoMPI(p) ==
  /\ resPc[p] = "reduce"
  /\ ~build.mpi
  /\ residual' = Put(residual, p, local_residual[p])
  /\ ret' = Put(ret, p, 0)
  /\ resPc' = [resPc EXCEPT ![p] = "returned"]
  /\ UNCHANGED <<genVars, localLength, v1, v2, team, taken, resCritical,
                 local_residual, maxBuf>>

\* Lines 79-81: process p calls MPI_Allreduce with its local_residual.
ResAllreduceCall(p) ==
  /\ resPc[p] = "reduce"
  /\ build.mpi
  /\ maxBuf' = Put(maxBuf, p, local_residual[p])
  /\ resPc' = [resPc EXCEPT ![p] = "allreduce"]
  /\ UNCHANGED <<genVars, localLength, v1, v2, team, taken, resCritical,
                 local_residual, residual, ret>>

\* Mutant of ReduceMax: the operand of the highest rank wins.
MutReduceMaxHighestRank(buf, S) == buf[CHOOSE e \in S : \A f \in S : e >= f]

\* MPI_MAX over the operands of all ranks.
RECURSIVE ReduceMax(_, _)
ReduceMax(buf, S) ==
  IF S = {} THEN 0
  ELSE LET e == CHOOSE e \in S : TRUE
           rest == S \ {e}
       IN  IF rest = {} THEN buf[e]
           ELSE IF buf[e] > ReduceMax(buf, rest) THEN buf[e] ELSE ReduceMax(buf, rest)

\* MPI_Allreduce returns on process p; lines 82 and 87.
ResAllreduceReturn(p) ==
  /\ resPc[p] = "allreduce"
  /\ AllContributed(maxBuf, ResProcs)
  /\ residual' = Put(residual, p, ReduceMax(maxBuf, DOMAIN maxBuf))
  /\ ret' = Put(ret, p, 0)
  /\ resPc' = [resPc EXCEPT ![p] = "returned"]
  /\ UNCHANGED <<genVars, localLength, v1, v2, team, taken, resCritical,
                 local_residual, maxBuf>>


\* GenerateProblem is not called in this run.
NoGenerateCall ==
  /\ geom = <<>> /\ pc = <<>>
  /\ localNumberOfRows = <<>> /\ totalNumberOfRows = <<>>
  /\ localNumberOfNonzeros = <<>>
  /\ globalToLocalMap = <<>> /\ localToGlobalMap = <<>> /\ nonzerosInRow = <<>>
  /\ mtxIndG = <<>> /\ matrixValues = <<>> /\ matrixDiagonal = <<>>
  /\ x = <<>> /\ b = <<>> /\ xexact = <<>> /\ A = <<>>
  /\ thr = <<>> /\ izTaken = <<>> /\ critical = <<>> /\ sumBuf = <<>>
  /\ criticalEntries = <<>> /\ writers = <<>>

\* The entries of the input vectors: pairs (v1[i], v2[i]) with differences
\* 0, -2 and 3.
Entries == { <<0, 0>>, <<-1, 1>>, <<2, -1>> }

\* The vectors of at most MaxLen entries.
EntryVectors == UNION { [1..k -> Entries] : k \in 0..MaxLen }

\* The state of the ranks DOMAIN vs before ComputeResidual is entered;
\* vs[p] holds the pairs (v1[i], v2[i]) of process p.
InitResidual(vs) ==
  /\ localLength = [p \in DOMAIN vs |-> Len(vs[p])]
  /\ v1 = [p \in DOMAIN vs |-> [i \in 1..Len(vs[p]) |-> vs[p][i][1]]]
  /\ v2 = [p \in DOMAIN vs |-> [i \in 1..Len(vs[p]) |-> vs[p][i][2]]]
  /\ resPc = [p \in DOMAIN vs |-> "call"]
  /\ team = [p \in DOMAIN vs |-> <<>>]
  /\ taken = [p \in DOMAIN vs |-> {}]
  /\ resCritical = [p \in DOMAIN vs |-> 0]
  /\ local_residual = [p \in DOMAIN vs |-> 0]
  /\ maxBuf = <<>>
  /\ residual = <<>>
  /\ ret = <<>>

\* ComputeResidual is entered in any of the four builds, on one process or
\* (MPI build) on up to MaxResProcs, with input vectors drawn from vectors.
InitResWith(vectors) ==
  /\ \E omp \in BOOLEAN, mpi \in BOOLEAN :
       build = [omp |-> omp, mpi |-> mpi, trapv |-> FALSE, nolonglong |-> FALSE]
  /\ NoGenerateCall
  /\ \E size \in 1..(IF build.mpi THEN MaxResProcs ELSE 1) :
       \E vs \in [0..(size - 1) -> vectors] : InitResidual(vs)

InitRes == InitResWith(EntryVectors)

TeamStep(p, t) ==
  \/ \E i \in 1..localLength[p] : ResIteration(p, t, i)
  \/ ResForEnd(p, t)
  \/ ResBarrier(p, t)
  \/ ResMergeEnter(p, t)
  \/ ResMerge(p, t)

NextRes ==
  \E p \in ResProcs :
    \/ ResBegin(p)
    \/ ResSerialLoop(p)
    \/ \E t \in DOMAIN team[p] : TeamStep(p, t)
    \/ ResJoin(p)
    \/ ResReturnNoMPI(p)
    \/ ResAllreduceCall(p)
    \/ ResAllreduceReturn(p)

SpecRes == InitRes /\ [][NextRes]_vars

(***************************************************************************)
(* Claims on ComputeResidual.                                              *)
(***************************************************************************)
\* The local vectors of ranks p, p+1, ... one after the other.
RECURSIVE Concatenation(_, _)
Concatenation(v, p) ==
  IF p \notin DOMAIN v THEN <<>> ELSE v[p] \o Concatenation(v, p + 1)

\* |v1[i] - v2[i]| for every entry of every process.
AllDiffs ==
  UNION { { Diff(v1[p][i], v2[p][i]) : i \in 1..localLength[p] } : p \in ResProcs }

\* C1: for every number of processes and threads, every partition of the
\* index range and every interleaving of the merge steps, the value written
\* to *residual on every process is the maximum of |v1[i] - v2[i]| over the
\* concatenation of all local vectors: the value the serial loop computes
\* on the concatenated vectors.
C1_ResidualIsGlobalMax ==
  \A p \in DOMAIN residual :
    /\ residual[p] =
         SerialResidual(Concatenation(v1, 0), Concatenation(v2, 0), 1, 0)
    /\ AllDiffs # {} =>
         /\ residual[p] \in AllDiffs
         /\ \A d \in AllDiffs : residual[p] >= d

\* Two processes with two threads each have returned; the maximum lies on
\* the second process only, and on each process one thread's maximum is
\* below the other's.
C1_Witness ==
  /\ build.omp /\ build.mpi
  /\ DOMAIN ret = ResProcs
  /\ Cardinality(ResProcs) = 2
  /\ \A p \in ResProcs :
       /\ DOMAIN team[p] = 1..2
       /\ team[p][1].threadlocal_residual > team[p][2].threadlocal_residual
  /\ team[1][2].threadlocal_residual > 0
  /\ local_residual[0] < local_residual[1]
  /\ \A p \in ResProcs : residual[p] = 3


(***************************************************************************)
(* SpecGrid: the generation (lines 49-162) on every rank of a small        *)
(* three-dimensional process grid, all ranks with the same local extents,  *)
(* up to the point where the ranks meet in the reduction.                  *)
(***************************************************************************)
InitGrid ==
  /\ build = [omp |-> FALSE, mpi |-> TRUE, trapv |-> FALSE, nolonglong |-> FALSE]
  /\ \E npx \in 1..MaxNPG, npy \in 1..MaxNPG, npz \in 1..MaxNPG :
       \E nx \in 1..MaxRowsG, ny \in 1..MaxRowsG, nz \in 1..MaxRowsG :
         /\ nx * ny * nz <= MaxRowsG
         /\ geom = GridGeometries(<<npx, npy, npz>>, nx, ny, nz)
         /\ InitProcs(DOMAIN geom)

NextGrid ==
  /\ UNCHANGED resVars
  /\ \E p \in Procs :
       \/ GenPrecheck(p)
       \/ GenLoopsMPI(p)

SpecGrid == InitGrid /\ [][NextGrid]_vars

\* Process p is through the loop nest.
Generated(p) == pc[p] \in {"reduce", "allreduce", "done"}

AllGenerated == \A p \in Procs : Generated(p)

\* The global rows recorded in localToGlobalMap of process p.
OwnedRows(p) == { localToGlobalMap[p][r] : r \in DOMAIN localToGlobalMap[p] }

\* The number of grid points of the global domain.
GlobalPoints(g) == gnx(g) * gny(g) * gnz(g)

\* C11: over all processes of a process grid that ran GenerateProblem with
\* the same local extents, the sets of global rows recorded in the
\* localToGlobalMaps are pairwise disjoint and their union is
\* 0 .. gnx*gny*gnz - 1: every grid point has exactly one owner.
C11_GlobalRowIdentity ==
  AllGenerated =>
    /\ \A p, q \in Procs : p # q => OwnedRows(p) \cap OwnedRows(q) = {}
    /\ \A p \in Procs :
         UNION { OwnedRows(q) : q \in Procs } = 0..(GlobalPoints(geom[p]) - 1)

\* Eight ranks of a 2 x 2 x 2 grid with two rows each have generated their
\* rows; the sixteen grid points are shared out among them.
C11_Witness ==
  /\ AllGenerated
  /\ Cardinality(Procs) = 8
  /\ \A p \in Procs : Cardinality(OwnedRows(p)) = 2
  /\ Cardinality(UNION { OwnedRows(q) : q \in Procs }) = 16
  /\ OwnedRows(7) # {14, 15}


\* The processes whose vectors have entries.
NonEmptyProcs == { q \in ResProcs : localLength[q] > 0 }

\* The maximum of |v1[i] - v2[i]| over the entries of process q.
LocalMaximum(q) ==
  CHOOSE d \in { Diff(v1[q][i], v2[q][i]) : i \in 1..localLength[q] } :
    \A i \in 1..localLength[q] : d >= Diff(v1[q][i], v2[q][i])

\* C12: a process that calls ComputeResidual with n = 0 contributes 0.0 to
\* the reduction; the value returned on every process is the maximum of the
\* local maxima of the processes with n > 0, 0.0 when there is none, and is
\* never negative.
C12_EmptyContribution ==
  /\ \A q \in DOMAIN maxBuf : localLength[q] = 0 => maxBuf[q] = 0
  /\ \A p \in DOMAIN residual :
       /\ residual[p] >= 0
       /\ IF NonEmptyProcs = {} THEN residual[p] = 0
          ELSE /\ \E q \in NonEmptyProcs : residual[p] = LocalMaximum(q)
               /\ \A q \in NonEmptyProcs : residual[p] >= LocalMaximum(q)

\* Two processes have returned; the higher rank had n = 0 and the value
\* returned on both is the positive maximum of the other.
C12_Witness ==
  /\ build.mpi
  /\ DOMAIN ret = ResProcs
  /\ ResProcs = {0, 1}
  /\ localLength[0] = 2 /\ localLength[1] = 0
  /\ maxBuf[1] = 0
  /\ residual[0] = 3 /\ residual[1] = 3


(***************************************************************************)
(* Claims on the columns of the generated rows.                            *)
(***************************************************************************)
\* The global coordinates of local row r of a process with geometry g.
GlobalCoordinates(g, r) ==
  [gix |-> g.ipx * g.nx + (r % g.nx),
   giy |-> g.ipy * g.ny + ((r \div g.nx) % g.ny),
   giz |-> g.ipz * g.nz + (r \div (g.nx * g.ny))]

\* The global indices of the neighbours of grid point c (itself included)
\* that lie inside the global domain.
ClippedNeighbours(g, c) ==
  { (c.giz + sz) * gnx(g) * gny(g) + (c.giy + sy) * gnx(g) + (c.gix + sx) :
      <<sx, sy, sz>> \in
        { o \in (-1..1) \X (-1..1) \X (-1..1) :
            /\ 0 <= c.gix + o[1] /\ c.gix + o[1] < gnx(g)
            /\ 0 <= c.giy + o[2] /\ c.giy + o[2] < gny(g)
            /\ 0 <= c.giz + o[3] /\ c.giz + o[3] < gnz(g) } }

\* The columns recorded in the filled slots of local row r of process p.
RecordedColumns(p, r) == { mtxIndG[p][r][k] : k \in 1..nonzerosInRow[p][r] }

\* C13: for every local row, the set of recorded global columns is exactly
\* the set of the in-domain neighbours of the row's grid point; every
\* column lies in 0 .. gnx*gny*gnz - 1, none wraps around an edge of the
\* domain, and nonzerosInRow is the size of that set.
C13_ClippedStencil ==
  \A p \in Procs : Done(p) =>
    \A r \in Rows(localNumberOfRows[p]) :
      LET expected == ClippedNeighbours(geom[p], GlobalCoordinates(geom[p], r)) IN
        /\ RecordedColumns(p, r) = expected
        /\ RecordedColumns(p, r) \subseteq 0..(GlobalPoints(geom[p]) - 1)
        /\ nonzerosInRow[p][r] = Cardinality(expected)

\* A process away from the origin of the grid has a row on a face of the
\* global domain: 18 of the 27 candidates are kept.
C13_Witness ==
  \E p \in Procs :
    /\ Done(p)
    /\ geom[p].ipx > 0 /\ geom[p].ipy > 0
    /\ \E r \in Rows(localNumberOfRows[p]) :
         /\ nonzerosInRow[p][r] = 18
         /\ GlobalCoordinates(geom[p], r).giy = gny(geom[p]) - 1
         /\ RecordedColumns(p, r) =
              ClippedNeighbours(geom[p], GlobalCoordinates(geom[p], r))


(***************************************************************************)
(* Claims on the threads of the generation loop.                           *)
(***************************************************************************)
\* The threads of process p that are at position s of the loop body.
ThreadsAt(p, s) == { t \in DOMAIN thr[p] : thr[p][t].pc = s }

\* C14: at no reachable state are two threads of one process inside the
\* globalToLocalMap insertion, nor two inside the localNumberOfNonzeros
\* accumulation; no row enters either critical section more than once, and
\* at return every row has entered each of the two exactly once.
C14_MutualExclusion ==
  \A p \in Procs :
    /\ Cardinality(ThreadsAt(p, "map_in")) <= 1
    /\ Cardinality(ThreadsAt(p, "nnz_in")) <= 1
    /\ \A r \in DOMAIN criticalEntries[p].map : criticalEntries[p].map[r] = 1
    /\ \A r \in DOMAIN criticalEntries[p].nnz : criticalEntries[p].nnz[r] = 1
    /\ Done(p) =>
         /\ DOMAIN criticalEntries[p].map = Rows(localNumberOfRows[p])
         /\ DOMAIN criticalEntries[p].nnz = Rows(localNumberOfRows[p])

\* One thread is inside the accumulation while the other waits to insert
\* its row into the map; rows of both threads have been through the first
\* critical section already.
C14_Witness ==
  \E p \in Procs :
    /\ pc[p] = "loop"
    /\ ThreadsAt(p, "nnz_in") = {1}
    /\ ThreadsAt(p, "map_wait") = {2}
    /\ thr[p][1].iz # thr[p][2].iz
    /\ thr[p][2].ix > 0
    /\ Cardinality(DOMAIN criticalEntries[p].map) >= 3
    /\ \A r \in DOMAIN criticalEntries[p].map : criticalEntries[p].map[r] = 1

\* The arrays that the loop body writes outside the critical sections.
UnprotectedArrays ==
  {"localToGlobalMap", "nonzerosInRow", "matrixDiagonal", "mtxIndG", "matrixValues",
   "x", "b", "xexact"}

\* C15: outside the critical sections, every array element written by the
\* parallel loop is written by one iteration only, the one whose local row
\* is the element's index, hence by one thread only, however the
\* iz-iterations are handed to the threads; at return every element of
\* every row has been written.
C15_RaceFreedom ==
  \A p \in Procs :
    /\ \A w \in writers[p] :
         /\ w.array \in UnprotectedArrays
         /\ w.index = CurrentLocalRow(geom[p], w.iteration[3], w.iteration[2], w.iteration[1])
    /\ \A w1, w2 \in writers[p] :
         (w1.array = w2.array /\ w1.index = w2.index) =>
           (w1.thread = w2.thread /\ w1.iteration = w2.iteration)
    /\ (Done(p) /\ build.omp) =>
         { <<w.array, w.index>> : w \in writers[p] } =
           UnprotectedArrays \X Rows(localNumberOfRows[p])

\* Both threads have written rows of a process with two planes, and the
\* process has returned.
C15_Witness ==
  \E p \in Procs :
    /\ Done(p)
    /\ build.omp
    /\ geom[p].nz = 2 /\ localNumberOfRows[p] = 8
    /\ { w.thread : w \in writers[p] } = Threads
    /\ Cardinality(writers[p]) = 64


(***************************************************************************)
(* SpecColl: the MPI build (no OpenMP) on every rank of a line of 2 or 3   *)
(* processes; each process calls GenerateProblem and, once it has          *)
(* returned, ComputeResidual.  A process may stop taking steps at any      *)
(* point, so a behaviour in which a rank never reaches a reduction is a    *)
(* behaviour of the specification.                                         *)
(***************************************************************************)
\* The process grids with more than one process.
MultiProcessGrids == ProcessGrids \ { <<1, 1, 1>> }

\* The vectors of at most MaxLenColl entries.
MaxLenColl == 1
ShortVectors == { v \in EntryVectors : Len(v) <= MaxLenColl }

InitColl ==
  /\ build = [omp |-> FALSE, mpi |-> TRUE, trapv |-> FALSE, nolonglong |-> FALSE]
  /\ \E grid \in MultiProcessGrids, nx \in 1..MaxNM : geom = GridGeometries(grid, nx, 1, 1)
  /\ InitGen(DOMAIN geom)
  /\ \E vs \in [DOMAIN geom -> ShortVectors] : InitResidual(vs)

\* Process p calls ComputeResidual after its GenerateProblem has returned.
ResidualStep(p) ==
  /\ pc[p] = "done"
  /\ \/ ResBegin(p)
     \/ ResSerialLoop(p)
     \/ ResAllreduceCall(p)
     \/ ResAllreduceReturn(p)

NextColl ==
  \E p \in Procs :
    \/ /\ UNCHANGED resVars
       /\ \/ GenPrecheck(p)
          \/ GenLoopsMPI(p)
          \/ AllreduceCall(p)
          \/ AllreduceReturn(p)
    \/ ResidualStep(p)

SpecColl == InitColl /\ [][NextColl]_vars

\* The ranks a process grid of the model can have.
Ranks == 0..(MaxNP - 1)

\* Process p is past the MPI_Allreduce of GenerateProblem.
SumReturned(p) == pc[p] \in {"done", "assert_totalNumberOfNonzeros"}

\* Process p has returned from ComputeResidual.
MaxReturned(p) == resPc[p] = "returned"

\* Whoever is past a reduction is past it after every rank handed in its
\* local value, and all who are past it hold the same result.
ReturnedAfterAll ==
  /\ \A p \in Procs : SumReturned(p) =>
       /\ DOMAIN sumBuf = Procs
       /\ \A q \in Procs : sumBuf[q] = Widen(localNumberOfNonzeros[q])
  /\ \A p, q \in Procs : (pc[p] = "done" /\ pc[q] = "done") =>
       A[p].totalNumberOfNonzeros = A[q].totalNumberOfNonzeros
  /\ \A p \in Procs : MaxReturned(p) =>
       /\ DOMAIN maxBuf = Procs
       /\ \A q \in Procs : maxBuf[q] = local_residual[q]
  /\ \A p, q \in Procs : (MaxReturned(p) /\ MaxReturned(q)) => residual[p] = residual[q]

\* C16: in a multi-process run no process returns from the reduction of
\* ComputeResidual, nor from the nonzero-sum reduction of GenerateProblem,
\* before every process has contributed its local value, and all processes
\* obtain the same reduced value; in a behaviour where some rank never
\* calls a reduction, no rank ever returns from it.
C16_CollectiveBarrier ==
  /\ []ReturnedAfterAll
  /\ \A r \in Ranks :
       [](r \in Procs /\ r \notin DOMAIN sumBuf) => [](\A q \in Procs : ~SumReturned(q))
  /\ \A r \in Ranks :
       [](r \in Procs /\ r \notin DOMAIN maxBuf) => [](\A q \in Procs : ~MaxReturned(q))

\* Three processes with different local values have all returned from both
\* reductions with the common results.
C16_Witness ==
  /\ Cardinality(Procs) = 3
  /\ \A p \in Procs : pc[p] = "done" /\ MaxReturned(p)
  /\ localNumberOfNonzeros[0] # localNumberOfNonzeros[1]
  /\ local_residual[0] = 0 /\ local_residual[1] = 2 /\ local_residual[2] = 3
  /\ \A p \in Procs : residual[p] = 3
  /\ \A p \in Procs : A[p].totalNumberOfNonzeros = WideSumOver(sumBuf, Procs)


(***************************************************************************)
(* SpecResFair: ComputeResidual under fair scheduling.  Every process runs *)
(* on its own, and every thread of a team keeps being scheduled: a step    *)
(* of a process or of a thread that stays possible is eventually taken.    *)
(* A thread enters the critical construct once, so a waiting thread is     *)
(* overtaken at most once by each other thread of its team.                *)
(***************************************************************************)
\* The ranks and the thread numbers that a run of ComputeResidual can have.
ResRanks == 0..(MaxResProcs - 1)
TeamNumbers == 1..NumThreads

\* A step of process p outside its parallel region.
ProcessStep(p) ==
  /\ p \in ResProcs
  /\ \/ ResBegin(p)
     \/ ResSerialLoop(p)
     \/ ResJoin(p)
     \/ ResReturnNoMPI(p)
     \/ ResAllreduceCall(p)
     \/ ResAllreduceReturn(p)

\* A step of thread t of the team of process p.
ThreadOfTeamStep(p, t) ==
  /\ p \in ResProcs
  /\ t \in DOMAIN team[p]
  /\ TeamStep(p, t)

FairScheduling ==
  \A p \in ResRanks :
    /\ WF_vars(ProcessStep(p))
    /\ \A t \in TeamNumbers : WF_vars(ThreadOfTeamStep(p, t))

\* One vector of every length up to MaxLen: scheduling does not depend on
\* the values.
VectorOfLength(k) == [i \in 1..k |-> IF i = 1 THEN <<2, -1>> ELSE <<-1, 1>>]
VectorsByLength == { VectorOfLength(k) : k \in 0..MaxLen }

InitResFair == InitResWith(VectorsByLength)

SpecResFair == InitResFair /\ [][NextRes]_vars /\ FairScheduling

\* Every process of the run has returned from ComputeResidual with status 0.
AllReturnedZero ==
  \A p \in ResProcs : resPc[p] = "returned" /\ p \in DOMAIN ret /\ ret[p] = 0

\* Thread t of process p is waiting for, or inside, the merge critical section.
AtMerge(p, t) ==
  /\ p \in ResProcs
  /\ t \in DOMAIN team[p]
  /\ team[p][t].pc \in {"merge_wait", "merge_in"}

\* Thread t of process p has left the merge critical section.
LeftMerge(p, t) ==
  /\ p \in ResProcs
  /\ t \in DOMAIN team[p]
  /\ team[p][t].pc = "end"
  /\ resCritical[p] # t

\* C17: when every process calls ComputeResidual and scheduling is fair,
\* every thread that reaches the merge critical section eventually leaves
\* it, every process eventually returns, and the status returned is 0;
\* no reachable state short of the return of all processes is a deadlock.
C17_Termination ==
  /\ [](AllReturnedZero \/ ENABLED NextRes)
  /\ \A p \in ResRanks : \A t \in TeamNumbers : AtMerge(p, t) ~> LeftMerge(p, t)
  /\ <>[]AllReturnedZero

\* Two processes have returned with status 0, each after two threads went
\* through the merge critical section.
C17_Witness ==
  /\ build.omp /\ build.mpi
  /\ ResProcs = {0, 1}
  /\ AllReturnedZero
  /\ \A p \in ResProcs : DOMAIN team[p] = {1, 2} /\ \A t \in {1, 2} : LeftMerge(p, t)
  /\ ~ENABLED NextRes


(***************************************************************************)
(* Claims on the width of the nonzero-sum reduction.                       *)
(***************************************************************************)
\* The sum, in 64 bits, of the operands that the ranks handed to the
\* reduction.
TrueSumOfOperands == WideSumOver(sumBuf, DOMAIN sumBuf)

\* C18: whatever the process-local type, the cross-process reduction of
\* the nonzero counts accumulates in 64 bits: the total stored into the
\* matrix of a process is the true sum of the local counts, never a wrapped
\* value, and it is positive.
C18_SixtyFourBitSum ==
  \A p \in Procs :
    (build.mpi /\ Done(p)) =>
      /\ DOMAIN sumBuf = Procs
      /\ \A q \in Procs : sumBuf[q] = Widen(localNumberOfNonzeros[q])
      /\ A[p].totalNumberOfNonzeros = TrueSumOfOperands
      /\ WidePositive(A[p].totalNumberOfNonzeros)


(***************************************************************************)
(* Claims on the matrix assembled from the rows of all processes.          *)
(***************************************************************************)
\* The process that owns global row i.
Owner(i) == CHOOSE p \in Procs : i \in DOMAIN globalToLocalMap[p]

\* The entries of global row i, as pairs <<global column, value>>.
GlobalRowEntries(i) ==
  LET p == Owner(i)
      r == globalToLocalMap[p][i]
  IN  { <<mtxIndG[p][r][k], matrixValues[p][r][k]>> : k \in 1..nonzerosInRow[p][r] }

\* The global columns of global row i.
GlobalRowColumns(i) == { e[1] : e \in GlobalRowEntries(i) }

\* C19: for any two distinct global rows i and j, owned by the same or by
\* different processes, column j is among the entries of row i if and only
\* if column i is among the entries of row j, and both entries are -1.0.
C19_StructuralSymmetry ==
  AllGenerated =>
    \A i, j \in 0..(GlobalPoints(geom[0]) - 1) :
      i # j =>
        /\ j \in GlobalRowColumns(i) <=> i \in GlobalRowColumns(j)
        /\ \A e \in GlobalRowEntries(i) : e[1] = j => e[2] = -1
        /\ \A e \in GlobalRowEntries(j) : e[1] = i => e[2] = -1

\* Eight processes: rows 1 and 2 lie on different processes and hold each
\* other, rows 0 and 2 are not neighbours and do not.
C19_Witness ==
  /\ AllGenerated
  /\ Cardinality(Procs) = 8
  /\ gnx(geom[0]) = 4
  /\ Owner(1) # Owner(2)
  /\ <<2, -1>> \in GlobalRowEntries(1) /\ <<1, -1>> \in GlobalRowEntries(2)
  /\ 2 \notin GlobalRowColumns(0) /\ 0 \notin GlobalRowColumns(2)


(***************************************************************************)
(* Claims on the order of the entries of a row.                            *)
(***************************************************************************)
\* C20: in every row, under every thread schedule, the global columns in
\* slots 0 .. nonzerosInRow-1 are strictly increasing, hence pairwise
\* distinct, and the value array is aligned with them slot for slot: as
\* many values as columns, 27.0 in the slot of the row's own column and
\* -1.0 in every other.
C20_ColumnsIncreasing ==
  \A p \in Procs : Done(p) =>
    \A r \in Rows(localNumberOfRows[p]) :
      LET cols == mtxIndG[p][r]
          vals == matrixValues[p][r]
          n == nonzerosInRow[p][r]
      IN  /\ Len(cols) = n /\ Len(vals) = n
          /\ \A k \in 1..(n - 1) : cols[k] < cols[k + 1]
          /\ \A k, m \in 1..n : k # m => cols[k] # cols[m]
          /\ \A k \in 1..n :
               vals[k] = IF cols[k] = localToGlobalMap[p][r] THEN 27 ELSE -1

\* A process whose rows were built by two threads has returned; one of its
\* rows has all 27 entries, in increasing order, the diagonal in the middle.
C20_Witness ==
  \E p \in Procs :
    /\ Done(p)
    /\ build.omp
    /\ AllThreadsRan(p)
    /\ \E r \in Rows(localNumberOfRows[p]) :
         /\ nonzerosInRow[p][r] = 27
         /\ \A k \in 1..26 : mtxIndG[p][r][k] < mtxIndG[p][r][k + 1]
         /\ mtxIndG[p][r][14] = localToGlobalMap[p][r]
         /\ matrixValues[p][r][14] = 27 /\ matrixValues[p][r][13] = -1

====
